---- MODULE Spec2Model ----
(***************************************************************************)
(* Model of the resume optimization pipeline of jobapp: the section-path   *)
(* scoped document editor (yaml_processing_utils.py), the 7-prompt         *)
(* LangGraph pipeline (legacy_pipeline_7_prompts/langgraph_resume_         *)
(* pipeline.py) and the API key rotation manager (core/api_key_manager.py).*)
(*                                                                         *)
(* The specifications that share the module:                               *)
(*   SpecEditor   the pure editor functions applied to bounded inputs      *)
(*   SpecApply    apply_selective_resume_updates and extract_by_path       *)
(*   SpecPipeline one run of the pipeline graph                            *)
(*   SpecKeys     one APIKeyManager under an arbitrary operation sequence  *)
(*   SpecRestarts, SpecProcess  managers across restarts / in one process  *)
(*   SpecWrapper  one send_prompt call of the LLM wrapper                  *)
(*   SpecBatch    runs of the batch driver over the same output directory  *)
(*   SpecShared   several managers of one process over one state file      *)
(*   SpecEnv      concurrent _get_llm calls over the process environment   *)
(***************************************************************************)
EXTENDS Integers, Sequences, FiniteSets, TLC

VARIABLES
    \* ---- editor (yaml_processing_utils.py) ----
    resume_dict,        \* the document apply_selective_resume_updates mutates in place
    updates,            \* the update value handed to the editor (any parsed YAML value)
    allowed_paths,      \* the list of path expressions
    doc_before,         \* history: resume_dict as it was before the call
    editor_op,          \* which editor operation has run: "none" before any
    editor_raised,      \* TRUE when the operation raised
    extracted,          \* the last extract_by_path_advanced call: its path and result
    \* ---- pipeline (langgraph_resume_pipeline.py) ----
    pc,                 \* the node the graph runs next, "done", or "error"
    input_resume,       \* context['input_resume']
    edited_resume,      \* context['edited_resume']
    section_paths,      \* pipeline.section_paths
    max_retries,        \* pipeline.max_retries
    versions,           \* intermediates['edited_resume_versions']
    validation_attempts,\* intermediates['validation_attempts'] (0: key absent)
    is_valid,           \* intermediates['is_valid'] ("unset" | TRUE | FALSE)
    dishonesty_score,   \* intermediates['dishonesty_score']
    formatted_resume,   \* intermediates['formatted_resume']
    loaded,             \* history: the value of input_resume that LoadInputs saw
    hist,               \* history: counters of phase executions and validator outcomes
    \* ---- key rotation (api_key_manager.py) ----
    provider_name,      \* the provider all managers here serve
    today,              \* the provider-local date, as a day number
    session_reset_checked, \* APIKeyManager._session_reset_checked[provider_name]
    state_file,         \* the quota state file on disk
    constructed,        \* per manager: whether __init__ has run
    current_key_env,    \* per manager: self.current_key_env
    failed_keys,        \* per manager: self.failed_keys
    quota_exhausted_keys, \* per manager: self.quota_exhausted_keys (slot -> date)
    last,               \* history: the last manager operation and what it returned
    \* ---- LLM call wrapper (llm_interface.py) ----
    wrapper,            \* one send_prompt call: its arguments, locals and position
    wlog,               \* history: waits, slots used and marked, invocations made
    \* ---- batch driver (batch_optimizer.py) ----
    batch,              \* run_batch_optimization: its arguments, loop position, outcome
    jobs,               \* per job: position in process_single_job and its result record
    outputs,            \* per job: the files present in its output directory
    \* ---- model construction in worker threads (llm_interface.py _get_llm) ----
    os_environ,         \* os.environ[env_key], the provider's process-wide API key
    get_llm             \* per worker thread: its _get_llm call (locals and position)

editorVars == <<resume_dict, updates, allowed_paths, doc_before, editor_op, editor_raised,
                extracted>>
pipeVars == <<pc, input_resume, edited_resume, section_paths, max_retries, versions,
              validation_attempts, is_valid, dishonesty_score, formatted_resume,
              loaded, hist>>
keyVars == <<provider_name, today, session_reset_checked, state_file, constructed,
             current_key_env, failed_keys, quota_exhausted_keys, last>>
wrapVars == <<wrapper, wlog>>
batchVars == <<batch, jobs, outputs>>
envVars == <<os_environ, get_llm>>
vars == <<editorVars, pipeVars, keyVars, wrapVars, batchVars, envVars>>

(***************************************************************************)
(* Values.  A parsed YAML value is tagged: a string (a sequence of words,  *)
(* so that Python's substring test `x in s` is a contiguous-subsequence    *)
(* test), a mapping (a function from key names), a list, an integer, or    *)
(* None.  A document is a mapping, written as the bare function.           *)
(***************************************************************************)
Str(s) == [t |-> "str", v |-> s]
Map(m) == [t |-> "map", v |-> m]
List(l) == [t |-> "list", v |-> l]
IntVal(n) == [t |-> "int", v |-> n]
NoneVal == [t |-> "none", v |-> <<>>]

EmptyDoc == <<>>

IsDict(x) == x.t = "map"
IsList(x) == x.t = "list"

\* Python truthiness of a parsed value (`if not section_updates`).
Falsy(x) ==
    \/ x.t = "none"
    \/ x.t \in {"str", "list"} /\ x.v = <<>>
    \/ x.t = "map" /\ DOMAIN x.v = {}
    \/ x.t = "int" /\ x.v = 0

\* `needle in hay` on strings: a contiguous run of words.
Contains(hay, needle) ==
    \E i \in 0..(Len(hay) - Len(needle)) :
        \A j \in 1..Len(needle) : hay[i + j] = needle[j]

\* The order in which a mapping's values are listed by .values().
FieldOrder == <<"company", "title", "description", "name">>

RECURSIVE JoinFrom(_, _)
JoinFrom(m, i) ==
    IF i > Len(FieldOrder) THEN <<>>
    ELSE IF FieldOrder[i] \in DOMAIN m
         THEN m[FieldOrder[i]] \o JoinFrom(m, i + 1)
         ELSE JoinFrom(m, i + 1)

\* ' '.join(str(v) for v in item.values())
ItemStr(m) == JoinFrom(m, 1)

\* dict.update: the update's fields override the item's.
DictUpdate(item, upd) ==
    [k \in DOMAIN item \cup DOMAIN upd |-> IF k \in DOMAIN upd THEN upd[k] ELSE item[k]]

\* d with d[k] = val
DictSet(d, k, val) == [j \in DOMAIN d \cup {k} |-> IF j = k THEN val ELSE d[j]]

(***************************************************************************)
(* Paths.  A path string is kept as its pieces: the text before the first  *)
(* '[' or '.', the field after the '.', and the filter between brackets.   *)
(* NoField / NoFilter stand for a path without that piece.                 *)
(***************************************************************************)
NoField == ""
NoFilter == <<"-">>

TopPath(s) == [s |-> s, f |-> NoField, x |-> NoFilter]
DotPath(s, f) == [s |-> s, f |-> f, x |-> NoFilter]
BracketPath(s, x) == [s |-> s, f |-> NoField, x |-> x]

\* '[' in path and path.endswith(']')
IsBracket(p) == p.x # NoFilter
\* '.' in path
IsDot(p) == p.f # NoField

\* `key in updates` for the value kinds `in` accepts: a mapping tests its keys, a
\* list its elements, a string its substrings.  None raises (see InRaises).
KeyIn(key, u) ==
    CASE u.t = "map" -> key \in DOMAIN u.v
      [] u.t = "list" -> \E i \in 1..Len(u.v) : u.v[i] = Str(<<key>>)
      [] u.t = "str" -> Contains(u.v, <<key>>)
      [] OTHER -> FALSE
InRaises(u) == u.t \in {"none", "int"}

(***************************************************************************)
(* apply_selective_resume_updates.  The state threaded through the loop is *)
(* [doc, err]: the document as mutated so far and whether an exception     *)
(* left the loop.                                                          *)
(***************************************************************************)
\* The first update item that is a mapping whose joined values contain the filter.
MatchingUpdate(section_updates, filter_value) ==
    LET items == IF section_updates.t = "list" THEN section_updates.v ELSE <<>>
        hits == {j \in 1..Len(items) :
                    items[j].t = "map" /\ Contains(ItemStr(items[j].v), filter_value)}
    IN IF hits = {} THEN NoneVal
       ELSE items[CHOOSE j \in hits : \A h \in hits : j <= h]

\* Lines 404-415: every item of the list that matches the filter is merged with
\* the first matching update item.
MergeItems(section_data, section_updates, filter_value) ==
    LET upd == MatchingUpdate(section_updates, filter_value)
    IN [i \in 1..Len(section_data) |->
          IF /\ section_data[i].t = "map"
             /\ Contains(ItemStr(section_data[i].v), filter_value)
             /\ upd # NoneVal
          THEN Map(DictUpdate(section_data[i].v, upd.v))
          ELSE section_data[i]]

\* Some item of the list is a mapping whose joined values contain the filter.
SomeItemMatches(section_data, filter_value) ==
    \E i \in 1..Len(section_data) :
        section_data[i].t = "map" /\ Contains(ItemStr(section_data[i].v), filter_value)

ApplyBracket(doc, u, p) ==
    IF ~IsDict(u) THEN [doc |-> doc, err |-> TRUE]           \* updates.get: AttributeError
    ELSE IF p.s \notin DOMAIN u.v \/ Falsy(u.v[p.s]) THEN [doc |-> doc, err |-> FALSE]
    ELSE IF p.s \notin DOMAIN doc \/ ~IsList(doc[p.s]) THEN [doc |-> doc, err |-> FALSE]
    ELSE IF u.v[p.s].t = "int"                               \* `for update in 5`: TypeError
         THEN [doc |-> doc, err |-> SomeItemMatches(doc[p.s].v, p.x)]
    ELSE [doc |-> DictSet(doc, p.s, List(MergeItems(doc[p.s].v, u.v[p.s], p.x))),
          err |-> FALSE]

ApplyDot(doc, u, p) ==
    IF InRaises(u) THEN [doc |-> doc, err |-> TRUE]          \* `section in None`: TypeError
    ELSE IF ~KeyIn(p.s, u) THEN [doc |-> doc, err |-> FALSE]
    ELSE IF ~IsDict(u) THEN [doc |-> doc, err |-> TRUE]      \* updates[section] on str/list
    ELSE IF ~IsDict(u.v[p.s]) THEN [doc |-> doc, err |-> FALSE]
    ELSE LET d1 == IF p.s \in DOMAIN doc THEN doc ELSE DictSet(doc, p.s, Map(EmptyDoc))
         IN IF p.f \notin DOMAIN u.v[p.s].v THEN [doc |-> d1, err |-> FALSE]
            ELSE IF ~IsDict(d1[p.s]) THEN [doc |-> d1, err |-> TRUE]  \* item assignment on str/list
            ELSE [doc |-> DictSet(d1, p.s, Map(DictSet(d1[p.s].v, p.f, u.v[p.s].v[p.f]))),
                  err |-> FALSE]

ApplyTop(doc, u, p) ==
    IF InRaises(u) THEN [doc |-> doc, err |-> TRUE]
    ELSE IF ~KeyIn(p.s, u) THEN [doc |-> doc, err |-> FALSE]
    ELSE IF ~IsDict(u) THEN [doc |-> doc, err |-> TRUE]
    ELSE [doc |-> DictSet(doc, p.s, u.v[p.s]), err |-> FALSE]

\* A bracketed path that also holds a '.' before the '[' ("a.b[x]") takes the
\* bracket branch with section_path "a.b", which is no key of any document here.
DottedBracket(p) == IsBracket(p) /\ IsDot(p)

ApplyPath(doc, u, p) ==
    IF DottedBracket(p) THEN [doc |-> doc, err |-> ~IsDict(u)]
    ELSE IF IsBracket(p) THEN ApplyBracket(doc, u, p)
    ELSE IF IsDot(p) THEN ApplyDot(doc, u, p)
    ELSE ApplyTop(doc, u, p)

RECURSIVE ApplyFrom(_, _, _, _)
ApplyFrom(st, u, paths, i) ==
    IF i > Len(paths) \/ st.err THEN st
    ELSE ApplyFrom(ApplyPath(st.doc, u, paths[i]), u, paths, i + 1)

apply_selective_resume_updates(doc, u, paths) ==
    ApplyFrom([doc |-> doc, err |-> FALSE], u, paths, 1)

(***************************************************************************)
(* extract_by_path_advanced.  The path is split at the '.' outside         *)
(* brackets; each part is a key with an optional [filter].  The fields of  *)
(* a mapping below the top level are strings.                              *)
(***************************************************************************)
PathParts(p) ==
    IF IsDot(p)
    THEN <<[key |-> p.s, idx |-> NoFilter], [key |-> p.f, idx |-> p.x]>>
    ELSE <<[key |-> p.s, idx |-> p.x]>>

\* cur.get(key) if isinstance(cur, dict) else None
GetKey(cur, key, top) ==
    IF IsDict(cur) /\ key \in DOMAIN cur.v
    THEN IF top THEN cur.v[key] ELSE Str(cur.v[key])
    ELSE NoneVal

\* filter_value in ' '.join(str(v) for v in item.values())
FilterInJoinedValues(item, idx) ==
    item.t = "map" /\ Contains(ItemStr(item.v), idx)
\* any(idx in str(v) for v in item.values())
AnyValueContains(item, idx) ==
    item.t = "map" /\ \E f \in DOMAIN item.v : Contains(item.v[f], idx)

\* Lines 261-277: the bracket part on a mapping (a key lookup), on a list (the
\* first mapping item with a value containing the filter), or on anything else.
BracketStep(cur, idx) ==
    IF IsDict(cur)
    THEN IF Len(idx) = 1 /\ idx[1] \in DOMAIN cur.v THEN Str(cur.v[idx[1]]) ELSE NoneVal
    ELSE IF IsList(cur)
         THEN LET hits == {i \in 1..Len(cur.v) : AnyValueContains(cur.v[i], idx)}
              IN IF hits = {} THEN NoneVal
                 ELSE cur.v[CHOOSE i \in hits : \A h \in hits : i <= h]
    ELSE NoneVal

ExtractStep(cur, part, top) ==
    LET got == GetKey(cur, part.key, top)
    IN IF got = NoneVal \/ part.idx = NoFilter THEN got ELSE BracketStep(got, part.idx)

RECURSIVE ExtractParts(_, _, _)
ExtractParts(cur, parts, i) ==
    IF i > Len(parts) \/ cur = NoneVal THEN cur
    ELSE ExtractParts(ExtractStep(cur, parts[i], i = 1), parts, i + 1)

extract_by_path_advanced(data, p) == ExtractParts(Map(data), PathParts(p), 1)

NoExtract == [path |-> TopPath("none"), val |-> NoneVal, raised |-> FALSE]

(***************************************************************************)
(* extract_allowed_updates_only.  State [doc, err] as above, doc being the *)
(* allowed_updates mapping built so far.                                   *)
(***************************************************************************)
ExtractPathTopLevelOnly(allowed, u, p) ==
    IF InRaises(u) THEN [doc |-> allowed, err |-> TRUE]
    ELSE IF IsDict(u) /\ ~IsDot(p) /\ ~IsBracket(p) /\ p.s \in DOMAIN u.v
         THEN [doc |-> DictSet(allowed, p.s, u.v[p.s]), err |-> FALSE]
    ELSE [doc |-> allowed, err |-> FALSE]
ExtractPath(allowed, u, p) ==
    IF InRaises(u) THEN [doc |-> allowed, err |-> TRUE]
    ELSE IF DottedBracket(p) THEN [doc |-> allowed, err |-> FALSE]
    ELSE IF ~KeyIn(p.s, u) THEN [doc |-> allowed, err |-> FALSE]
    ELSE IF ~IsDict(u) THEN [doc |-> allowed, err |-> TRUE]
    ELSE IF IsDot(p) /\ ~IsBracket(p)
         THEN IF ~IsDict(u.v[p.s]) THEN [doc |-> allowed, err |-> FALSE]
              ELSE LET a1 == IF p.s \in DOMAIN allowed THEN allowed
                             ELSE DictSet(allowed, p.s, Map(EmptyDoc))
                   IN IF p.f \notin DOMAIN u.v[p.s].v THEN [doc |-> a1, err |-> FALSE]
                      ELSE [doc |-> DictSet(a1, p.s,
                                      Map(DictSet(a1[p.s].v, p.f, u.v[p.s].v[p.f]))),
                            err |-> FALSE]
    ELSE [doc |-> DictSet(allowed, p.s, u.v[p.s]), err |-> FALSE]

RECURSIVE ExtractFrom(_, _, _, _)
ExtractFrom(st, u, paths, i) ==
    IF i > Len(paths) \/ st.err THEN st
    ELSE ExtractFrom(ExtractPath(st.doc, u, paths[i]), u, paths, i + 1)

extract_allowed_updates_only(u, paths) ==
    ExtractFrom([doc |-> EmptyDoc, err |-> FALSE], u, paths, 1)

(***************************************************************************)
(* The frame of an update: what may differ between a document before and   *)
(* after when only the locations addressed by the paths are written.       *)
(*  - a top-level path covers the whole value of its key;                  *)
(*  - a dotted path a.b covers field b of mapping a (creating a to hold b  *)
(*    is a write to a.b; an a holding no covered field is not);            *)
(*  - a bracketed path a[x] covers the items of list a that match x.       *)
(***************************************************************************)
CoveredWhole(paths, k) == \E i \in 1..Len(paths) : paths[i] = TopPath(k)
CoveredFields(paths, k) ==
    {paths[i].f : i \in {j \in 1..Len(paths) :
                           paths[j].s = k /\ IsDot(paths[j]) /\ ~IsBracket(paths[j])}}
CoveredFilters(paths, k) ==
    {paths[i].x : i \in {j \in 1..Len(paths) :
                           paths[j].s = k /\ IsBracket(paths[j]) /\ ~IsDot(paths[j])}}

KeyUntouched(before, after, paths, k) ==
    LET F == CoveredFields(paths, k)
        X == CoveredFilters(paths, k)
    IN IF k \notin DOMAIN before
       THEN k \in DOMAIN after =>
              /\ IsDict(after[k])
              /\ DOMAIN after[k].v # {}
              /\ DOMAIN after[k].v \subseteq F
       ELSE /\ k \in DOMAIN after
            /\ CASE IsDict(before[k]) /\ IsDict(after[k]) ->
                      \A f \in (DOMAIN before[k].v \cup DOMAIN after[k].v) \ F :
                          /\ f \in DOMAIN before[k].v
                          /\ f \in DOMAIN after[k].v
                          /\ before[k].v[f] = after[k].v[f]
                 [] IsList(before[k]) /\ IsList(after[k]) ->
                      /\ Len(before[k].v) = Len(after[k].v)
                      /\ \A i \in 1..Len(before[k].v) :
                            \/ before[k].v[i] = after[k].v[i]
                            \/ /\ before[k].v[i].t = "map"
                               /\ \E x \in X : Contains(ItemStr(before[k].v[i].v), x)
                 [] OTHER -> before[k] = after[k]

OnlyAllowedChanged(before, after, paths) ==
    \A k \in DOMAIN before \cup DOMAIN after :
        CoveredWhole(paths, k) \/ KeyUntouched(before, after, paths, k)

(***************************************************************************)
(* SpecEditor: the editor functions on inputs drawn from bounded sets.     *)
(***************************************************************************)
MaxPaths == 2

Absent == [t |-> "absent", v |-> <<>>]

\* The mapping that holds the keys of `choice` that are not Absent.
AsDoc(choice) == [k \in {j \in DOMAIN choice : choice[j] # Absent} |-> choice[k]]

AcmeItem == Map([company |-> <<"Acme">>, title |-> <<"Dev">>])
BetaItem == Map([company |-> <<"Beta">>, title |-> <<"Dev">>])
AcmeCorpItem == Map([company |-> <<"Acme", "Corp">>, title |-> <<"Ops">>])
AcmeLead == Map([company |-> <<"Acme">>, title |-> <<"Lead">>])
BetaLead == Map([company |-> <<"Beta">>, title |-> <<"Lead">>])

EditorDocOptions ==
    [profile |-> {Absent, Map([description |-> <<"old">>]),
                  Map([description |-> <<"old">>, name |-> <<"Ann">>]), Str(<<"old">>)},
     skills |-> {Absent, List(<<Str(<<"Py">>)>>)},
     experience |-> {Absent, List(<<AcmeItem, BetaItem>>), List(<<BetaItem, AcmeItem, AcmeCorpItem>>)}]

EditorUpdateOptions ==
    [profile |-> {Absent, Map([description |-> <<"new">>]), Map([name |-> <<"Bob">>]),
                  Str(<<"new">>)},
     skills |-> {Absent, List(<<Str(<<"Py">>), Str(<<"SQL">>)>>)},
     experience |-> {Absent, List(<<AcmeLead>>), List(<<BetaLead, AcmeLead>>)},
     extra |-> {Absent, Str(<<"x">>)}]

Choices(options) == {c \in [DOMAIN options -> UNION {options[k] : k \in DOMAIN options}] :
                        \A k \in DOMAIN options : c[k] \in options[k]}

EditorDocs == {AsDoc(c) : c \in Choices(EditorDocOptions)}
EditorUpdates ==
    {Map(AsDoc(c)) : c \in Choices(EditorUpdateOptions)}
      \cup {NoneVal, Str(<<"see", "skills">>), List(<<Str(<<"profile">>)>>)}

EditorPaths ==
    {TopPath("profile"), TopPath("skills"), DotPath("profile", "description"),
     BracketPath("experience", <<"Acme">>), DotPath("extra", "x")}

RECURSIVE SeqsUpTo(_, _)
SeqsUpTo(S, n) ==
    IF n = 0 THEN {<<>>}
    ELSE LET shorter == SeqsUpTo(S, n - 1)
         IN shorter \cup {Append(q, e) : q \in {r \in shorter : Len(r) = n - 1}, e \in S}

EditorPathLists == SeqsUpTo(EditorPaths, MaxPaths)

EditorIdle ==
    /\ resume_dict = EmptyDoc
    /\ updates = NoneVal
    /\ allowed_paths = <<>>
    /\ doc_before = EmptyDoc
    /\ editor_op = "none"
    /\ editor_raised = FALSE
    /\ extracted = NoExtract

InitEditor ==
    /\ resume_dict \in EditorDocs
    /\ updates \in EditorUpdates
    /\ allowed_paths \in EditorPathLists
    /\ doc_before = resume_dict
    /\ editor_op = "none"
    /\ editor_raised = FALSE
    /\ extracted = NoExtract

\* The call sequence of OptimizationPhaseNode lines 271-273 on its own:
\* filter the updates to the allowed paths, then apply them.
FilteredApply ==
    /\ editor_op = "none"
    /\ LET allowed == extract_allowed_updates_only(updates, allowed_paths)
           applied == apply_selective_resume_updates(resume_dict, Map(allowed.doc),
                                                     allowed_paths)
       IN /\ resume_dict' = IF allowed.err THEN resume_dict ELSE applied.doc
          /\ editor_raised' = (allowed.err \/ applied.err)
    /\ editor_op' = "filtered_apply"
    /\ UNCHANGED <<updates, allowed_paths, doc_before, extracted>>
    /\ UNCHANGED <<pipeVars, keyVars, wrapVars, batchVars, envVars>>

NextEditor == FilteredApply

(***************************************************************************)
(* SpecApply: apply_selective_resume_updates called directly, a second     *)
(* time with the same arguments, and extract_by_path_advanced on the       *)
(* result.                                                                 *)
(***************************************************************************)
AcmeDevSenior == Map([company |-> <<"Acme">>, title |-> <<"Dev">>,
                      description |-> <<"Senior">>])

ApplyDocs ==
    {AsDoc(c) : c \in Choices(
        [profile |-> {Absent, Map([description |-> <<"old">>]), Str(<<"old">>)},
         skills |-> {Absent, List(<<Str(<<"Py">>)>>)},
         experience |-> {Absent, List(<<BetaItem, AcmeItem, AcmeCorpItem>>)}])}

ApplyUpdateValues ==
    {Map(AsDoc(c)) : c \in Choices(
        [profile |-> {Absent, Map([description |-> <<"new">>]), Map([name |-> <<"Bob">>])},
         skills |-> {Absent, List(<<Str(<<"Py">>), Str(<<"SQL">>)>>)},
         experience |-> {Absent, List(<<BetaLead, AcmeLead>>), List(<<AcmeDevSenior>>)}])}
      \cup {NoneVal, Str(<<"see", "skills">>)}

ApplyPaths ==
    {TopPath("profile"), TopPath("skills"), DotPath("profile", "description"),
     BracketPath("experience", <<"Acme">>), BracketPath("experience", <<"Acme", "Dev">>)}

\* The paths extract_by_path_advanced is asked for: those above, a bracket on a
\* mapping, on a list of strings and below a dot, and keys no document has.
ExtractPaths ==
    ApplyPaths \cup
    {BracketPath("profile", <<"description">>), BracketPath("skills", <<"Py">>),
     [s |-> "profile", f |-> "description", x |-> <<"old">>],
     DotPath("skills", "name"), TopPath("extra")}

InitApply ==
    /\ resume_dict \in ApplyDocs
    /\ updates \in ApplyUpdateValues
    /\ allowed_paths \in SeqsUpTo(ApplyPaths, MaxPaths)
    /\ doc_before = resume_dict
    /\ editor_op = "none"
    /\ editor_raised = FALSE
    /\ extracted = NoExtract

\* apply_selective_resume_updates(resume_dict, updates, allowed_paths)
ApplyUpdates ==
    /\ editor_op = "none"
    /\ LET applied == apply_selective_resume_updates(resume_dict, updates, allowed_paths)
       IN /\ resume_dict' = applied.doc
          /\ editor_raised' = applied.err
    /\ editor_op' = "apply"
    /\ UNCHANGED <<updates, allowed_paths, doc_before, extracted>>
    /\ UNCHANGED <<pipeVars, keyVars, wrapVars, batchVars, envVars>>

\* The same call once more, on the document the first call left.
ApplyAgain ==
    /\ editor_op = "apply"
    /\ LET applied == apply_selective_resume_updates(resume_dict, updates, allowed_paths)
       IN /\ resume_dict' = applied.doc
          /\ editor_raised' = applied.err
    /\ editor_op' = "apply_again"
    /\ UNCHANGED <<updates, allowed_paths, doc_before, extracted>>
    /\ UNCHANGED <<pipeVars, keyVars, wrapVars, batchVars, envVars>>

\* extract_by_path_advanced(resume_dict, path) on the document an apply left.
ExtractByPath ==
    /\ editor_op = "apply"
    /\ \E p \in ExtractPaths :
         extracted' = [path |-> p, val |-> extract_by_path_advanced(resume_dict, p),
                       raised |-> FALSE]
    /\ editor_op' = "extract"
    /\ UNCHANGED <<resume_dict, updates, allowed_paths, doc_before, editor_raised>>
    /\ UNCHANGED <<pipeVars, keyVars, wrapVars, batchVars, envVars>>

NextApply ==
    \/ ApplyUpdates
    \/ ApplyAgain
    \/ ExtractByPath

(***************************************************************************)
(* LLM responses.  A response text is kept as what it holds: a YAML        *)
(* mapping, a YAML list, plain prose, nothing, or text the YAML loader     *)
(* rejects.                                                                *)
(***************************************************************************)
MappingResponse(m) == [kind |-> "mapping", val |-> Map(m)]
ListResponse(l) == [kind |-> "list", val |-> List(l)]
ProseResponse(w) == [kind |-> "prose", val |-> Str(w)]
EmptyResponse == [kind |-> "empty", val |-> NoneVal]
MalformedResponse == [kind |-> "malformed", val |-> NoneVal]

\* parse_llm_yaml_to_dict: yaml.safe_load of the cleaned text; {} on YAMLError.
\* safe_load gives None for empty text and a string for prose.
parse_llm_yaml_to_dict(resp) ==
    IF resp.kind = "malformed" THEN Map(EmptyDoc) ELSE resp.val

(***************************************************************************)
(* SpecPipeline: one run of ResumeOptimizationPipeline.                    *)
(***************************************************************************)
MaxCeiling == 2

SectionsList == List(<<Str(<<"profile">>), Str(<<"skills">>)>>)

PipelineInputs ==
    {AsDoc(c) : c \in Choices(
        [profile |-> {Map([description |-> <<"old">>])},
         skills |-> {List(<<Str(<<"Py">>)>>)},
         experience |-> {Absent, List(<<AcmeItem, BetaItem>>)},
         sections |-> {Absent, SectionsList}])}
      \cup {[skills |-> List(<<Str(<<"Py">>)>>), sections |-> SectionsList]}

PipelinePathLists ==
    {<<DotPath("profile", "description"), TopPath("skills")>>,
     <<TopPath("skills")>>,
     <<BracketPath("experience", <<"Acme">>)>>,
     <<DotPath("extra", "x"), TopPath("skills")>>}

\* What the profile-planning step may answer.
PlanningResponses ==
    {MappingResponse([profile |-> Map([description |-> <<"new">>])]),
     ProseResponse(<<"keep">>),
     EmptyResponse}

\* What the optimizer and the refiner may answer.
DocumentResponses ==
    {MappingResponse([profile |-> Map([description |-> <<"new">>]),
                      skills |-> List(<<Str(<<"Py">>), Str(<<"SQL">>)>>)]),
     MappingResponse([extra |-> Map([y |-> <<"x">>]),
                      experience |-> List(<<AcmeLead>>)]),
     MalformedResponse,
     EmptyResponse}

ScoreResponse(score) ==
    MappingResponse([VALIDATION_RESULTS |-> Map([DISHONESTY_SCORE |-> score])])

\* What the validator may answer.
ValidatorResponses ==
    {ScoreResponse(IntVal(10)), ScoreResponse(IntVal(50)), ScoreResponse(IntVal(80)),
     ScoreResponse(Str(<<"high">>)),
     MappingResponse([VALIDATION_RESULTS |-> Map(EmptyDoc)]),
     MappingResponse([VALIDATION_RESULTS |-> Str(<<"bad">>)]),
     ProseResponse(<<"looks", "fine">>),
     EmptyResponse}

\* What the formatter may answer.
FormattingResponses ==
    {MappingResponse([profile |-> Map([description |-> <<"bold">>])]),
     MappingResponse([profile |-> Map([description |-> <<"bold">>]),
                      sections |-> List(<<Str(<<"other">>)>>)]),
     ProseResponse(<<"sorry">>),
     EmptyResponse}

NoHist == [validations |-> 0, refinements |-> 0, optimizations |-> 0,
           all_invalid |-> TRUE, last_score |-> NoneVal, phase |-> "none",
           changed |-> FALSE, response |-> "none", parsed |-> NoneVal,
           optimizer_answer |-> NoneVal, optimizer_input |-> NoneVal,
           working_document |-> NoneVal]

PipelineIdle ==
    /\ pc = "idle"
    /\ input_resume = EmptyDoc
    /\ edited_resume = EmptyDoc
    /\ section_paths = <<>>
    /\ max_retries = 0
    /\ versions = <<>>
    /\ validation_attempts = 0
    /\ is_valid = "unset"
    /\ dishonesty_score = NoneVal
    /\ formatted_resume = NoneVal
    /\ loaded = EmptyDoc
    /\ hist = NoHist

InitPipeline ==
    /\ pc = "load_inputs"
    /\ input_resume \in PipelineInputs
    /\ edited_resume = EmptyDoc
    /\ section_paths \in PipelinePathLists
    /\ max_retries \in 1..MaxCeiling
    /\ versions = <<>>
    /\ validation_attempts = 0
    /\ is_valid = "unset"
    /\ dishonesty_score = NoneVal
    /\ formatted_resume = NoneVal
    /\ loaded = input_resume
    /\ hist = NoHist

\* context['edited_resume'] = copy.deepcopy(context['input_resume']): the working
\* document is an object of its own, so a later in-place write to it (giving
\* new_edited) leaves the object input_resume names as it was.
InputAliased(inp, new_edited) == new_edited
InputAfterWrite(inp, new_edited) == inp

\* ...setdefault('edited_resume_versions', []).append(copy.deepcopy(edited_resume))
AppendVersion(vs, doc) == Append(vs, doc)

NoSnapshot(vs, doc) == vs
RefinementSnapshot(vs, doc) == AppendVersion(vs, doc)

Ran(phase, before, after) ==
    [hist EXCEPT !.phase = phase, !.changed = (before # after),
                 !.response = "none", !.parsed = NoneVal]

\* The phase read the answer resp through parse_llm_yaml_to_dict.
RanOn(phase, before, after, resp) ==
    [Ran(phase, before, after) EXCEPT !.response = resp.kind,
                                      !.parsed = parse_llm_yaml_to_dict(resp)]

LoadInputs ==
    /\ pc = "load_inputs"
    /\ edited_resume' = input_resume
    /\ versions' = AppendVersion(versions, edited_resume')
    /\ input_resume' = InputAfterWrite(input_resume, edited_resume')
    /\ hist' = Ran("load_inputs", edited_resume', edited_resume')
    /\ pc' = "planning"
    /\ UNCHANGED <<section_paths, max_retries, validation_attempts, is_valid,
                   dishonesty_score, formatted_resume, loaded>>
    /\ UNCHANGED <<editorVars, keyVars, wrapVars, batchVars, envVars>>

\* Lines 187-200: the description the profile-planning answer recommends, or None.
NewDescription(resp) ==
    LET parsed == parse_llm_yaml_to_dict(resp)
    IN IF /\ IsDict(parsed)
          /\ "profile" \in DOMAIN parsed.v
          /\ IsDict(parsed.v["profile"])
          /\ "description" \in DOMAIN parsed.v["profile"].v
       THEN Str(parsed.v["profile"].v["description"])
       ELSE NoneVal

\* The paths PlanningPhaseNode hands to apply_selective_resume_updates (line 208).
PlanningPaths == <<DotPath("profile", "description")>>

PlanningPhase ==
    /\ pc = "planning"
    /\ \E resp \in PlanningResponses :
         IF ~("profile" \in DOMAIN edited_resume
              /\ IsDict(edited_resume["profile"])
              /\ "description" \in DOMAIN edited_resume["profile"].v)
         THEN \* line 177: KeyError / TypeError leaves the node
              /\ pc' = "error"
              /\ hist' = Ran("planning", edited_resume, edited_resume)
              /\ UNCHANGED <<edited_resume, input_resume>>
         ELSE LET nd == NewDescription(resp)
                  r == apply_selective_resume_updates(
                          edited_resume,
                          Map([profile |-> Map([description |-> nd.v])]),
                          PlanningPaths)
              IN /\ edited_resume' = IF Falsy(nd) THEN edited_resume ELSE r.doc
                 /\ input_resume' = InputAfterWrite(input_resume, edited_resume')
                 /\ hist' = RanOn("planning", edited_resume, edited_resume', resp)
                 /\ pc' = "optimization"
    /\ UNCHANGED <<section_paths, max_retries, versions, validation_attempts, is_valid,
                   dishonesty_score, formatted_resume, loaded>>
    /\ UNCHANGED <<editorVars, keyVars, wrapVars, batchVars, envVars>>

\* Line 252: resume_yaml = format_yaml_with_quotes(context['input_resume'], ...),
\* the document the optimizer prompt carries.
OptimizerResumeYaml(inp, edited) == inp

OptimizationPhase ==
    /\ pc = "optimization"
    /\ \E resp \in DocumentResponses :
         LET llm_updates == parse_llm_yaml_to_dict(resp)
             allowed == extract_allowed_updates_only(llm_updates, section_paths)
             r == apply_selective_resume_updates(edited_resume, Map(allowed.doc),
                                                 section_paths)
             failed == allowed.err \/ r.err
         IN /\ edited_resume' = IF allowed.err THEN edited_resume ELSE r.doc
            /\ input_resume' = InputAfterWrite(input_resume, edited_resume')
            /\ versions' = IF failed THEN versions
                           ELSE AppendVersion(versions, edited_resume')
            /\ hist' = [RanOn("optimization", edited_resume, edited_resume', resp)
                          EXCEPT !.optimizations = @ + 1,
                                 !.optimizer_answer = llm_updates,
                                 !.optimizer_input =
                                     Map(OptimizerResumeYaml(input_resume, edited_resume)),
                                 !.working_document = Map(edited_resume)]
            /\ pc' = IF failed THEN "error" ELSE "validation"
    /\ UNCHANGED <<section_paths, max_retries, validation_attempts, is_valid,
                   dishonesty_score, formatted_resume, loaded>>
    /\ UNCHANGED <<editorVars, keyVars, wrapVars, batchVars, envVars>>

\* Line 322: isinstance(dishonesty_score, int) and dishonesty_score <= 20
ScoreValid(score) == score.t = "int" /\ score.v <= 20

\* Line 332: the escape valve.
ForceValidLate(iteration, ceiling, valid) == iteration > ceiling /\ ~valid
ForceValid(iteration, ceiling, valid) == iteration >= ceiling /\ ~valid

\* validation_router (lines 527-529); an unset or false is_valid goes to refinement.
RouteAlwaysRefine(valid) == "refinement"
validation_router(valid) == IF valid = TRUE THEN "formatting" ELSE "refinement"

ValidationPhase ==
    /\ pc = "validation"
    /\ \E resp \in ValidatorResponses :
         LET parsed == parse_llm_yaml_to_dict(resp)
             iteration == validation_attempts + 1
             results == IF IsDict(parsed) /\ "VALIDATION_RESULTS" \in DOMAIN parsed.v
                        THEN parsed.v["VALIDATION_RESULTS"] ELSE Map(EmptyDoc)
             score == IF IsDict(results) /\ "DISHONESTY_SCORE" \in DOMAIN results.v
                      THEN results.v["DISHONESTY_SCORE"] ELSE IntVal(0)
             valid == ScoreValid(score)
         IN /\ validation_attempts' = iteration
            /\ IF ~IsDict(parsed) \/ ~IsDict(results)
               THEN \* parsed.get / results.get raise: PipelineContextApplyError
                    /\ pc' = "error"
                    /\ hist' = [RanOn("validation", edited_resume, edited_resume, resp)
                                  EXCEPT !.validations = @ + 1, !.all_invalid = FALSE]
                    /\ UNCHANGED <<is_valid, dishonesty_score>>
               ELSE /\ is_valid' = (valid \/ ForceValid(iteration, max_retries, valid))
                    /\ dishonesty_score' = score
                    /\ hist' = [RanOn("validation", edited_resume, edited_resume, resp)
                                  EXCEPT !.validations = @ + 1,
                                         !.all_invalid = @ /\ ~valid,
                                         !.last_score = score]
                    /\ pc' = validation_router(is_valid')
    /\ UNCHANGED <<input_resume, edited_resume, section_paths, max_retries, versions,
                   formatted_resume, loaded>>
    /\ UNCHANGED <<editorVars, keyVars, wrapVars, batchVars, envVars>>

RefinementPhase ==
    /\ pc = "refinement"
    /\ \E resp \in DocumentResponses :
         LET resume_yaml == parse_llm_yaml_to_dict(resp)
             r == apply_selective_resume_updates(edited_resume, resume_yaml, section_paths)
             iteration == IF validation_attempts = 0 THEN 1 ELSE validation_attempts
         IN /\ edited_resume' = r.doc
            /\ input_resume' = InputAfterWrite(input_resume, edited_resume')
            /\ versions' = IF r.err THEN versions
                           ELSE RefinementSnapshot(versions, edited_resume')
            /\ is_valid' = IF ~r.err /\ iteration >= max_retries THEN TRUE ELSE is_valid
            /\ hist' = [RanOn("refinement", edited_resume, edited_resume', resp)
                          EXCEPT !.refinements = @ + 1]
            /\ pc' = IF r.err THEN "error" ELSE "optimization"
    /\ UNCHANGED <<section_paths, max_retries, validation_attempts, dishonesty_score,
                   formatted_resume, loaded>>
    /\ UNCHANGED <<editorVars, keyVars, wrapVars, batchVars, envVars>>

\* Line 464: formatted_resume['sections'] = context['input_resume']['sections']
KeepModelSections(formatted, inp) ==
    IF "sections" \in DOMAIN formatted THEN formatted
    ELSE DictSet(formatted, "sections", inp["sections"])
OverwriteSections(formatted, inp) == DictSet(formatted, "sections", inp["sections"])

FormattingPhase ==
    /\ pc = "formatting"
    /\ \E resp \in FormattingResponses :
         LET formatted == parse_llm_yaml_to_dict(resp)
         IN /\ IF ~IsDict(formatted) \/ "sections" \notin DOMAIN input_resume
               THEN /\ pc' = "error"
                    /\ UNCHANGED formatted_resume
               ELSE /\ formatted_resume' =
                          Map(OverwriteSections(formatted.v, input_resume))
                    /\ pc' = "output_compile"
            /\ hist' = RanOn("formatting", edited_resume, edited_resume, resp)
    /\ UNCHANGED <<input_resume, edited_resume, section_paths, max_retries, versions,
                   validation_attempts, is_valid, dishonesty_score, loaded>>
    /\ UNCHANGED <<editorVars, keyVars, wrapVars, batchVars, envVars>>

OutputCompile ==
    /\ pc = "output_compile"
    /\ pc' = "done"
    /\ hist' = Ran("output_compile", edited_resume, edited_resume)
    /\ UNCHANGED <<input_resume, edited_resume, section_paths, max_retries, versions,
                   validation_attempts, is_valid, dishonesty_score, formatted_resume,
                   loaded>>
    /\ UNCHANGED <<editorVars, keyVars, wrapVars, batchVars, envVars>>

NextPipeline ==
    \/ LoadInputs
    \/ PlanningPhase
    \/ OptimizationPhase
    \/ ValidationPhase
    \/ RefinementPhase
    \/ FormattingPhase
    \/ OutputCompile

(***************************************************************************)
(* APIKeyManager.  Slots are the key environment variable names; dates are *)
(* day numbers (the code compares YYYY-MM-DD strings, which order the same *)
(* way).                                                                   *)
(***************************************************************************)
MaxDay == 1

primary_key_env == "A"
backup_key_envs == <<"B", "C">>
\* all_keys = [self.primary_key_env] + self.backup_key_envs
all_keys == <<primary_key_env>> \o backup_key_envs
Slots == {all_keys[i] : i \in 1..Len(all_keys)}

Managers == {"m1", "m2"}
NoKey == "None"
\* An absent date (no check recorded yet; no reset timestamp in the error) is the
\* empty set, a present one is a singleton.
NoDate == {}

\* The state file: missing, unreadable as JSON, or holding a quota map.
MissingFile == [kind |-> "missing", keys |-> <<>>]
CorruptFile == [kind |-> "corrupt", keys |-> <<>>]
FileWith(q) == [kind |-> "ok", keys |-> q]
\* A well-formed state file that cannot be opened for reading.
UnreadableFile == [kind |-> "unreadable", keys |-> [A |-> 0]]

\* _load_quota_state: the stored map, or {} when the file is missing or unreadable.
LoadRawKeys(file) == file.keys
LoadQuotaState(file) == IF file.kind = "ok" THEN file.keys ELSE <<>>

\* _save_quota_state: the file holds the in-memory map.
SkipSave(q) == state_file
SaveQuotaState(q) == FileWith(q)

\* Error texts, as the set of the indicator phrases they contain (none: any
\* other error), and the reset timestamp an OpenRouter error may carry (the day
\* it falls on, if any).
ErrorPhrases == {"quota exceeded", "429"}
\* phrases of all_quota_indicators / all_rpm_indicators that occur in ErrorPhrases
all_quota_indicators == {"quota exceeded", "daily limit exceeded", "requests per day", "402"}
all_rpm_indicators == {"rate limit exceeded", "too many requests", "rpm", "429"}

is_quota_exhausted_error(err) == err.text \cap all_quota_indicators # {}

is_rate_limit_error(err) ==
    IF err.text \cap all_rpm_indicators # {}
    THEN ~is_quota_exhausted_error(err)
    ELSE FALSE

Errors(day) ==
    {[text |-> t, reset |-> r] : t \in SUBSET ErrorPhrases, r \in {NoDate, {day}, {day + 1}}}

\* mark_key_quota_exhausted's date (lines 317-325): for OpenRouter the day before
\* the reset timestamp when the error carries one, else the current date.
ExhaustedDate(provider, err, day) ==
    IF provider = "openrouter" /\ err.reset # NoDate
    THEN (CHOOSE d \in err.reset : TRUE) - 1
    ELSE day

\* _reset_expired_quotas: the entries whose date is earlier than the current date.
ExpiredKeys(q, day) == {k \in DOMAIN q : q[k] < day}
WithoutKeys(q, ks) == [k \in DOMAIN q \ ks |-> q[k]]

\* is_key_available
KeyAvailableIgnoringFailed(key, failedset, q) == key \notin DOMAIN q
is_key_available(key, failedset, q) == key \notin failedset /\ key \notin DOMAIN q

\* Lines 371-386 of get_next_key_env: [ret, cur], the slot returned and the new
\* current slot.
RotateFromPrimary(cur, failedset, q) ==
    LET avail == {i \in 1..Len(all_keys) : is_key_available(all_keys[i], failedset, q)}
    IN IF avail = {} THEN [ret |-> NoKey, cur |-> cur]
       ELSE LET first == all_keys[CHOOSE i \in avail : \A j \in avail : i <= j]
            IN [ret |-> first, cur |-> first]
RotateAlwaysRescan(cur, failedset, q) == RotateFromPrimary(cur, failedset, q)
RotateToLast(cur, failedset, q) ==
    LET avail == {i \in 1..Len(all_keys) : is_key_available(all_keys[i], failedset, q)}
    IN IF is_key_available(cur, failedset, q) THEN [ret |-> cur, cur |-> cur]
       ELSE IF avail = {} THEN [ret |-> NoKey, cur |-> cur]
       ELSE LET pick == all_keys[CHOOSE i \in avail : \A j \in avail : i >= j]
            IN [ret |-> pick, cur |-> pick]
Rotate(cur, failedset, q) ==
    IF is_key_available(cur, failedset, q) THEN [ret |-> cur, cur |-> cur]
    ELSE RotateFromPrimary(cur, failedset, q)

\* handle_api_error's classification (lines 345-354).
ClassifyRateLimitFirst(err) ==
    IF err.text \cap all_rpm_indicators # {} THEN "rate_limited"
    ELSE IF is_quota_exhausted_error(err) THEN "quota_exhausted"
    ELSE "failed"
Classify(err) ==
    IF is_quota_exhausted_error(err) THEN "quota_exhausted"
    ELSE IF is_rate_limit_error(err) THEN "rate_limited"
    ELSE "failed"

NoOp == [op |-> "none", m |-> "m1", key |-> NoKey, ret |-> NoKey,
         cleared |-> {}, quota_sig |-> FALSE, rpm_sig |-> FALSE,
         marked_today |-> {}]
\* The record of an operation; marked_today, the slots marked quota-exhausted
\* since the date last changed, is carried from operation to operation.
Op(name, m) == [NoOp EXCEPT !.op = name, !.m = m, !.marked_today = last.marked_today]

KeysIdle ==
    /\ provider_name = "none"
    /\ today = 0
    /\ session_reset_checked = NoDate
    /\ state_file = MissingFile
    /\ constructed = [m \in Managers |-> FALSE]
    /\ current_key_env = [m \in Managers |-> primary_key_env]
    /\ failed_keys = [m \in Managers |-> {}]
    /\ quota_exhausted_keys = [m \in Managers |-> <<>>]
    /\ last = NoOp

\* A process in which one manager has been constructed over the state file an
\* earlier process may have left.
InitKeys ==
    /\ provider_name \in {"google", "openrouter"}
    /\ today = 0
    /\ session_reset_checked = NoDate
    /\ state_file \in {MissingFile, CorruptFile, UnreadableFile, FileWith([C |-> -1])}
    /\ constructed = [m \in Managers |-> m = "m1"]
    /\ current_key_env = [m \in Managers |-> primary_key_env]
    /\ failed_keys = [m \in Managers |-> {}]
    /\ quota_exhausted_keys =
         [m \in Managers |-> IF m = "m1" THEN LoadQuotaState(state_file) ELSE <<>>]
    /\ last = NoOp

\* The provider-local date moves to the next day.
AdvanceDay ==
    /\ today < MaxDay
    /\ today' = today + 1
    /\ last' = [Op("advance_day", "m1") EXCEPT !.marked_today = {}]
    /\ UNCHANGED <<provider_name, session_reset_checked, state_file, constructed,
                   current_key_env, failed_keys, quota_exhausted_keys>>
    /\ UNCHANGED <<editorVars, pipeVars, wrapVars, batchVars, envVars>>

\* _ensure_quota_reset_checked: [q, file, checked, cleared]
EnsureQuotaResetChecked(q, file, checked, day) ==
    IF checked # {day}
    THEN LET expired == ExpiredKeys(q, day)
             q1 == WithoutKeys(q, expired)
         IN [q |-> q1,
             file |-> IF expired # {} THEN SaveQuotaState(q1) ELSE file,
             checked |-> {day},
             cleared |-> expired]
    ELSE [q |-> q, file |-> file, checked |-> checked, cleared |-> {}]

GetNextKeyEnv(m) ==
    /\ constructed[m]
    /\ LET chk == EnsureQuotaResetChecked(quota_exhausted_keys[m], state_file,
                                          session_reset_checked, today)
           rot == Rotate(current_key_env[m], failed_keys[m], chk.q)
       IN /\ quota_exhausted_keys' = [quota_exhausted_keys EXCEPT ![m] = chk.q]
          /\ state_file' = chk.file
          /\ session_reset_checked' = chk.checked
          /\ current_key_env' = [current_key_env EXCEPT ![m] = rot.cur]
          /\ last' = [Op("get_next_key_env", m) EXCEPT !.ret = rot.ret,
                                                       !.cleared = chk.cleared]
    /\ UNCHANGED <<provider_name, today, constructed, failed_keys>>
    /\ UNCHANGED <<editorVars, pipeVars, wrapVars, batchVars, envVars>>

\* handle_api_error(error, key_env) for a key_env among keys.
HandleApiErrorOn(m, keys) ==
    /\ constructed[m]
    /\ \E err \in Errors(today), key_env \in keys :
         LET kind == Classify(err)
             q1 == DictSet(quota_exhausted_keys[m], key_env,
                           ExhaustedDate(provider_name, err, today))
         IN /\ quota_exhausted_keys' =
                 IF kind = "quota_exhausted"
                 THEN [quota_exhausted_keys EXCEPT ![m] = q1]
                 ELSE quota_exhausted_keys
            /\ state_file' = IF kind = "quota_exhausted" THEN SaveQuotaState(q1)
                             ELSE state_file
            /\ failed_keys' =
                 IF kind = "failed"
                 THEN [failed_keys EXCEPT ![m] = @ \cup {key_env}]
                 ELSE failed_keys
            /\ last' = [Op("handle_api_error", m) EXCEPT
                          !.key = key_env, !.ret = kind,
                          !.marked_today = IF kind = "quota_exhausted"
                                           THEN @ \cup {key_env} ELSE @,
                          !.quota_sig = (err.text \cap all_quota_indicators # {}),
                          !.rpm_sig = (err.text \cap all_rpm_indicators # {})]
    /\ UNCHANGED <<provider_name, today, session_reset_checked, constructed,
                   current_key_env>>
    /\ UNCHANGED <<editorVars, pipeVars, wrapVars, batchVars, envVars>>

HandleApiError(m) == HandleApiErrorOn(m, Slots)

\* The call as LLMInterface makes it (llm_interface.py line 244): the error is
\* reported for the slot the manager handed out, its current slot.
HandleCurrentKeyError(m) == HandleApiErrorOn(m, {current_key_env[m]})

ForceQuotaResetCheck(m) ==
    /\ constructed[m]
    /\ LET chk == EnsureQuotaResetChecked(quota_exhausted_keys[m], state_file,
                                          NoDate, today)
       IN /\ quota_exhausted_keys' = [quota_exhausted_keys EXCEPT ![m] = chk.q]
          /\ state_file' = chk.file
          /\ session_reset_checked' = chk.checked
          /\ last' = [Op("force_quota_reset_check", m) EXCEPT !.cleared = chk.cleared]
    /\ UNCHANGED <<provider_name, today, constructed, current_key_env, failed_keys>>
    /\ UNCHANGED <<editorVars, pipeVars, wrapVars, batchVars, envVars>>

ResetManager(m) ==
    /\ constructed[m]
    /\ failed_keys' = [failed_keys EXCEPT ![m] = {}]
    /\ quota_exhausted_keys' = [quota_exhausted_keys EXCEPT ![m] = <<>>]
    /\ current_key_env' = [current_key_env EXCEPT ![m] = primary_key_env]
    /\ state_file' = SaveQuotaState(<<>>)
    /\ last' = [Op("reset", m) EXCEPT !.marked_today = {}]
    /\ UNCHANGED <<provider_name, today, session_reset_checked, constructed>>
    /\ UNCHANGED <<editorVars, pipeVars, wrapVars, batchVars, envVars>>

ResetQuotaOnly(m) ==
    /\ constructed[m]
    /\ quota_exhausted_keys' = [quota_exhausted_keys EXCEPT ![m] = <<>>]
    /\ state_file' = SaveQuotaState(<<>>)
    /\ last' = [Op("reset_quota_only", m) EXCEPT !.marked_today = {}]
    /\ UNCHANGED <<provider_name, today, session_reset_checked, constructed,
                   current_key_env, failed_keys>>
    /\ UNCHANGED <<editorVars, pipeVars, wrapVars, batchVars, envVars>>

NextKeys ==
    \/ AdvanceDay
    \/ \E m \in Managers : GetNextKeyEnv(m)
    \/ \E m \in Managers : HandleApiError(m)
    \/ \E m \in Managers : ForceQuotaResetCheck(m)
    \/ \E m \in Managers : ResetManager(m)
    \/ \E m \in Managers : ResetQuotaOnly(m)

(***************************************************************************)
(* A process holding several managers for the same provider: every         *)
(* LLMInterface builds its own (llm_interface.py line 43), all of them     *)
(* over the same state file and the same class-level                       *)
(* _session_reset_checked.                                                 *)
(***************************************************************************)
\* APIKeyManager.__init__ (lines 28-45): the fields of a new manager.
LoadNothing(file) == <<>>
ConstructedQuota(file) == LoadQuotaState(file)

\* A process in which no manager has been constructed yet.
InitProcess ==
    /\ provider_name = "google"
    /\ today = 0
    /\ session_reset_checked = NoDate
    /\ state_file \in {MissingFile, FileWith([A |-> 0])}
    /\ constructed = [m \in Managers |-> FALSE]
    /\ current_key_env = [m \in Managers |-> primary_key_env]
    /\ failed_keys = [m \in Managers |-> {}]
    /\ quota_exhausted_keys = [m \in Managers |-> <<>>]
    /\ last = NoOp

\* An LLMInterface of the running process constructs its manager.
Construct(m) ==
    /\ ~constructed[m]
    /\ constructed' = [constructed EXCEPT ![m] = TRUE]
    /\ current_key_env' = [current_key_env EXCEPT ![m] = primary_key_env]
    /\ failed_keys' = [failed_keys EXCEPT ![m] = {}]
    /\ quota_exhausted_keys' =
         [quota_exhausted_keys EXCEPT ![m] = ConstructedQuota(state_file)]
    /\ last' = Op("construct", m)
    /\ UNCHANGED <<provider_name, today, session_reset_checked, state_file>>
    /\ UNCHANGED <<editorVars, pipeVars, wrapVars, batchVars, envVars>>

\* The process ends and a new one starts, in which manager m is constructed:
\* the objects of the old process and the class-level dictionary are gone, the
\* state file stays.
Restart(m) ==
    /\ \E m0 \in Managers : constructed[m0]
    /\ constructed' = [x \in Managers |-> x = m]
    /\ current_key_env' = [x \in Managers |-> primary_key_env]
    /\ failed_keys' = [x \in Managers |-> {}]
    /\ quota_exhausted_keys' =
         [x \in Managers |-> IF x = m THEN ConstructedQuota(state_file) ELSE <<>>]
    /\ session_reset_checked' = NoDate
    /\ last' = Op("restart", m)
    /\ UNCHANGED <<provider_name, today, state_file>>
    /\ UNCHANGED <<editorVars, pipeVars, wrapVars, batchVars, envVars>>

SoleManager == {"m1"}

\* Both runs ask their manager for a slot; the calls of the first run meet
\* errors, those of the other run succeed.
NextProcess ==
    \/ AdvanceDay
    \/ \E m \in Managers : Construct(m)
    \/ \E m \in Managers : GetNextKeyEnv(m)
    \/ \E m \in SoleManager : HandleCurrentKeyError(m)

\* Several runs of one process, each with its own manager over the shared state
\* file, each reporting the errors of its own calls.
NextShared ==
    \/ \E m \in Managers : Construct(m)
    \/ \E m \in Managers : GetNextKeyEnv(m)
    \/ \E m \in Managers : HandleCurrentKeyError(m)

\* One manager per process, over successive processes.
NextRestarts ==
    \/ AdvanceDay
    \/ \E m \in SoleManager : Restart(m)
    \/ \E m \in SoleManager : GetNextKeyEnv(m)
    \/ \E m \in SoleManager : HandleApiError(m)

(***************************************************************************)
(* LLMInterface.send_prompt and _handle_llm_call_with_key_management: one  *)
(* call, the primary invocation and then the fallback invocation, with the *)
(* manager of the provider ("m1") when backup keys are configured.         *)
(***************************************************************************)
MaxRetries == 2

\* retry_delay: float = 1.0
retry_delay == 1

NoError == [text |-> {"-"}, reset |-> NoDate]
\* Exception("All API keys are exhausted or failed")
AllKeysError == [text |-> {}, reset |-> NoDate]

NoWrapper ==
    [pc |-> "idle", use_manager |-> FALSE, fallback |-> FALSE, max_retries |-> 0,
     is_fallback |-> FALSE, current_key_env |-> NoKey, rpm_retry_count |-> 0,
     err |-> NoError, result |-> "none"]

NoLog ==
    [waits |-> <<>>, used |-> {}, marked |-> {}, invocations |-> <<>>,
     primary_raised |-> FALSE, fallback_raised |-> FALSE, after |-> "start",
     calls |-> 0, began |-> 0]

WrapperIdle == wrapper = NoWrapper /\ wlog = NoLog

\* The state of the manager as one value, and the two calls the wrapper makes.
ManagerState(m) ==
    [q |-> quota_exhausted_keys[m], file |-> state_file, checked |-> session_reset_checked,
     cur |-> current_key_env[m], failed |-> failed_keys[m]]

\* api_key_manager.get_next_key_env(): [st, ret]
ManagerGetNext(st, day) ==
    LET chk == EnsureQuotaResetChecked(st.q, st.file, st.checked, day)
        rot == Rotate(st.cur, st.failed, chk.q)
    IN [st |-> [q |-> chk.q, file |-> chk.file, checked |-> chk.checked,
                cur |-> rot.cur, failed |-> st.failed],
        ret |-> rot.ret]

\* api_key_manager.handle_api_error(e, current_key_env): [st, ret]
ManagerHandleMarksRateLimited(st, err, key_env, provider, day) ==
    LET kind == Classify(err)
        q1 == DictSet(st.q, key_env, ExhaustedDate(provider, err, day))
    IN [st |-> [st EXCEPT !.q = IF kind = "quota_exhausted" THEN q1 ELSE @,
                          !.file = IF kind = "quota_exhausted" THEN SaveQuotaState(q1) ELSE @,
                          !.failed = IF kind \in {"failed", "rate_limited"}
                                     THEN @ \cup {key_env} ELSE @],
        ret |-> kind]
ManagerHandle(st, err, key_env, provider, day) ==
    LET kind == Classify(err)
        q1 == DictSet(st.q, key_env, ExhaustedDate(provider, err, day))
    IN [st |-> [st EXCEPT !.q = IF kind = "quota_exhausted" THEN q1 ELSE @,
                          !.file = IF kind = "quota_exhausted" THEN SaveQuotaState(q1) ELSE @,
                          !.failed = IF kind = "failed" THEN @ \cup {key_env} ELSE @],
        ret |-> kind]

\* The manager variables take the value st for manager m.
ManagerBecomes(m, st) ==
    /\ quota_exhausted_keys' = [quota_exhausted_keys EXCEPT ![m] = st.q]
    /\ state_file' = st.file
    /\ session_reset_checked' = st.checked
    /\ current_key_env' = [current_key_env EXCEPT ![m] = st.cur]
    /\ failed_keys' = [failed_keys EXCEPT ![m] = st.failed]

\* A send_prompt call about to start, in a process whose LLMInterface has built
\* no manager yet.
InitWrapper ==
    /\ provider_name \in {"google", "openrouter"}
    /\ today = 0
    /\ session_reset_checked = NoDate
    /\ state_file = MissingFile
    /\ constructed = [m \in Managers |-> FALSE]
    /\ current_key_env = [m \in Managers |-> primary_key_env]
    /\ failed_keys = [m \in Managers |-> {}]
    /\ quota_exhausted_keys = [m \in Managers |-> <<>>]
    /\ last = NoOp
    /\ \E um \in BOOLEAN, fb \in BOOLEAN, mr \in 0..MaxRetries :
         wrapper = [NoWrapper EXCEPT !.pc = "start", !.use_manager = um,
                                     !.fallback = fb, !.max_retries = mr]
    /\ wlog = NoLog

\* Lines 193-209: the locals of an invocation.
BeginInvocation(w, is_fb) ==
    [w EXCEPT !.pc = "attempt", !.is_fallback = is_fb,
              !.current_key_env = primary_key_env, !.rpm_retry_count = 0,
              !.err = NoError]

\* send_prompt starts the primary invocation; _get_api_key_manager builds the
\* manager when backup keys are configured.
SendPrompt ==
    /\ wrapper.pc = "start"
    /\ wrapper' = BeginInvocation(wrapper, FALSE)
    /\ wlog' = [wlog EXCEPT !.invocations = <<"primary">>]
    /\ constructed' = [constructed EXCEPT !["m1"] = wrapper.use_manager]
    /\ quota_exhausted_keys' =
         [quota_exhausted_keys EXCEPT !["m1"] =
            IF wrapper.use_manager THEN ConstructedQuota(state_file) ELSE @]
    /\ UNCHANGED <<provider_name, today, session_reset_checked, state_file,
                   current_key_env, failed_keys, last>>
    /\ UNCHANGED <<editorVars, pipeVars, batchVars, envVars>>

\* Lines 212-234: take the slot from the manager, build the model, call it.
WrapperAttempt ==
    /\ wrapper.pc = "attempt"
    /\ LET gn == IF wrapper.use_manager
                 THEN ManagerGetNext(ManagerState("m1"), today)
                 ELSE [st |-> ManagerState("m1"), ret |-> wrapper.current_key_env]
           w == [wrapper EXCEPT !.current_key_env = gn.ret]
       IN /\ ManagerBecomes("m1", gn.st)
          /\ IF gn.ret = NoKey
             THEN /\ wrapper' = [w EXCEPT !.pc = "handle", !.err = AllKeysError]
                  /\ wlog' = wlog
             ELSE /\ \/ wrapper' = [w EXCEPT !.pc = "done", !.result = "content"]
                     \/ \E e \in Errors(today) :
                          wrapper' = [w EXCEPT !.pc = "handle", !.err = e]
                  /\ wlog' = [wlog EXCEPT !.used = @ \cup {gn.ret}, !.calls = @ + 1]
    /\ UNCHANGED <<provider_name, today, constructed, last>>
    /\ UNCHANGED <<editorVars, pipeVars, batchVars, envVars>>

\* `raise e` out of the invocation, as send_prompt receives it (lines 295-306):
\* the fallback invocation starts, or the call returns the error text.
Raised(w, log) ==
    IF ~w.is_fallback /\ w.fallback
    THEN [w |-> BeginInvocation(w, TRUE),
          log |-> [log EXCEPT !.primary_raised = TRUE,
                              !.invocations = Append(@, "fallback"),
                              !.waits = <<>>, !.used = {}, !.marked = {},
                              !.after = "start", !.calls = 0, !.began = today]]
    ELSE [w |-> [w EXCEPT !.pc = "done", !.result = "llm_error_text", !.err = NoError],
          log |-> IF w.is_fallback THEN [log EXCEPT !.fallback_raised = TRUE]
                  ELSE [log EXCEPT !.primary_raised = TRUE]]

\* rpm_retry_count < max_retries
MayRetryOnceMore(count, ceiling) == count <= ceiling
MayRetry(count, ceiling) == count < ceiling

\* backoff_delay = retry_delay * (2 ** rpm_retry_count)
backoff_delay(count) == retry_delay * (2 ^ count)

\* The counter after a rotation (lines 265, 278).
KeepCount(count) == count
CountAfterRotation(count) == 0

\* Lines 236-282: classify the error with the manager, then retry after a
\* backoff, rotate, or raise.
WrapperHandle ==
    /\ wrapper.pc = "handle"
    /\ LET key == wrapper.current_key_env
           classified == wrapper.use_manager /\ key # NoKey
           h == IF classified
                THEN ManagerHandle(ManagerState("m1"), wrapper.err, key, provider_name, today)
                ELSE [st |-> ManagerState("m1"), ret |-> "unknown"]
           gn == IF wrapper.use_manager
                 THEN ManagerGetNext(h.st, today)
                 ELSE [st |-> h.st, ret |-> NoKey]
           log == IF classified /\ h.ret \in {"quota_exhausted", "failed"}
                  THEN [wlog EXCEPT !.marked = @ \cup {key}]
                  ELSE wlog
       IN IF h.ret = "rate_limited"
          THEN /\ ManagerBecomes("m1", h.st)
               /\ IF MayRetry(wrapper.rpm_retry_count, wrapper.max_retries)
                  THEN /\ wrapper' = [wrapper EXCEPT !.pc = "attempt", !.err = NoError,
                                                     !.rpm_retry_count = @ + 1]
                       /\ wlog' = [log EXCEPT
                                     !.waits = Append(@, backoff_delay(wrapper.rpm_retry_count)),
                                     !.after = "backoff"]
                  ELSE /\ wrapper' = Raised(wrapper, log).w
                       /\ wlog' = Raised(wrapper, log).log
          ELSE /\ ManagerBecomes("m1", gn.st)
               /\ IF gn.ret # NoKey /\ gn.ret # key
                  THEN /\ wrapper' = [wrapper EXCEPT
                                        !.pc = "attempt", !.err = NoError,
                                        !.current_key_env = gn.ret,
                                        !.rpm_retry_count = CountAfterRotation(@)]
                       /\ wlog' = [log EXCEPT !.after = "rotation", !.waits = <<>>]
                  ELSE /\ wrapper' = Raised(wrapper, log).w
                       /\ wlog' = Raised(wrapper, log).log
    /\ UNCHANGED <<provider_name, today, constructed, last>>
    /\ UNCHANGED <<editorVars, pipeVars, batchVars, envVars>>

\* The date moves on while the call is in progress (during a model call or a
\* backoff sleep).
WrapperDayPasses ==
    /\ wrapper.pc \in {"attempt", "handle"}
    /\ today < MaxDay
    /\ today' = today + 1
    /\ UNCHANGED <<provider_name, session_reset_checked, state_file, constructed,
                   current_key_env, failed_keys, quota_exhausted_keys, last>>
    /\ UNCHANGED <<editorVars, pipeVars, wrapVars, batchVars, envVars>>

NextWrapper ==
    \/ SendPrompt
    \/ WrapperAttempt
    \/ WrapperHandle
    \/ WrapperDayPasses

(***************************************************************************)
(* Batch driver (batch_optimizer.py, pipelines/output_manager.py,          *)
(* compiler.py).  run_batch_optimization walks the jobs in score order,   *)
(* skips a job whose output YAML exists (unless overwrite), starts the    *)
(* others as tasks, gathers their result records, recompiles the PDFs of  *)
(* the successful ones and returns the records.  A result record keeps    *)
(* whether 'reason', 'yaml_path' and a non-None 'pdf_path' are present.    *)
(***************************************************************************)
MaxResumes == 2
MaxRuns == 2
JobOrder == <<"j1", "j2">>
JobIds == {JobOrder[i] : i \in 1..Len(JobOrder)}

NoResult == [kind |-> "none", success |-> FALSE, skipped |-> FALSE, reason |-> FALSE,
             yaml_path |-> FALSE, pdf_path |-> FALSE]
FailureRecord == [kind |-> "record", success |-> FALSE, skipped |-> FALSE, reason |-> TRUE,
                  yaml_path |-> FALSE, pdf_path |-> FALSE]
SkippedRecord == [kind |-> "record", success |-> TRUE, skipped |-> TRUE, reason |-> TRUE,
                  yaml_path |-> FALSE, pdf_path |-> FALSE]
SuccessRecord(pdf) == [kind |-> "record", success |-> TRUE, skipped |-> FALSE,
                       reason |-> FALSE, yaml_path |-> TRUE, pdf_path |-> pdf]

\* A job before any run: not examined, no result, never failed.
NewJob == [pc |-> "idle", result |-> NoResult, failed_before |-> FALSE,
           succeeded_before |-> FALSE]
NoBatch == [pc |-> "idle", overwrite |-> FALSE, compile_pdf |-> FALSE, max_resumes |-> 1,
            run |-> 0, next |-> 1, dispatched |-> 0, returned |-> {}]

BatchIdle ==
    /\ batch = NoBatch
    /\ jobs = [j \in JobIds |-> NewJob]
    /\ outputs = [j \in JobIds |-> {}]

InitBatch ==
    /\ batch \in {[NoBatch EXCEPT !.max_resumes = n] : n \in 1..MaxResumes}
    /\ jobs = [j \in JobIds |-> NewJob]
    /\ outputs = [j \in JobIds |-> {}]

\* What a job's last run was: a success record, a failure record, or a cancellation.
RanUnsuccessfully(job) ==
    \/ job.pc = "cancelled"
    \/ job.pc = "returned" /\ ~job.result.success
RanSuccessfully(job) == job.pc = "returned" /\ job.result.success /\ ~job.result.skipped

\* One call of run_batch_optimization (the sheet has been read and sorted).
StartBatch ==
    /\ batch.pc \in {"idle", "returned", "raised", "cancelled"}
    /\ batch.run < MaxRuns
    /\ \E ow \in BOOLEAN, cp \in BOOLEAN :
          batch' = [batch EXCEPT !.pc = "dispatch", !.overwrite = ow, !.compile_pdf = cp,
                                 !.run = @ + 1, !.next = 1, !.dispatched = 0,
                                 !.returned = {}]
    /\ jobs' = [j \in JobIds |->
                  [pc |-> "idle", result |-> NoResult,
                   failed_before |-> jobs[j].failed_before \/ RanUnsuccessfully(jobs[j]),
                   succeeded_before |-> jobs[j].succeeded_before
                                        \/ RanSuccessfully(jobs[j])]]
    /\ UNCHANGED outputs
    /\ UNCHANGED <<editorVars, pipeVars, keyVars, wrapVars, envVars>>

\* One pass of the dispatch loop: the next job is skipped when its YAML is on disk
\* and overwrite is off, otherwise a task is created for it; when the loop ends
\* the tasks are gathered (or [] is returned when there are none).
DispatchLoop ==
    /\ batch.pc = "dispatch"
    /\ IF batch.dispatched < batch.max_resumes /\ batch.next <= Len(JobOrder)
       THEN LET j == JobOrder[batch.next] IN
            IF ~batch.overwrite /\ "yaml" \in outputs[j]
            THEN /\ jobs' = [jobs EXCEPT ![j].pc = "skipped_existing"]
                 /\ batch' = [batch EXCEPT !.next = @ + 1]
            ELSE /\ jobs' = [jobs EXCEPT ![j].pc = "setup"]
                 /\ batch' = [batch EXCEPT !.next = @ + 1, !.dispatched = @ + 1]
       ELSE /\ batch' = [batch EXCEPT !.pc = IF batch.dispatched = 0 THEN "returned"
                                              ELSE "gather"]
            /\ UNCHANGED jobs
    /\ UNCHANGED outputs
    /\ UNCHANGED <<editorVars, pipeVars, keyVars, wrapVars, envVars>>

Returns(j, record) == jobs' = [jobs EXCEPT ![j].pc = "returned", ![j].result = record]

\* process_single_job up to the pipeline: configuration, inputs, output directory.
\* Any Exception gives a failure record, FileExistsError the skipped record.
JobSetup(j) ==
    /\ batch.pc = "gather"
    /\ jobs[j].pc = "setup"
    /\ \/ jobs' = [jobs EXCEPT ![j].pc = "pipeline"]
       \/ Returns(j, FailureRecord)
       \/ Returns(j, SkippedRecord)
    /\ UNCHANGED <<batch, outputs>>
    /\ UNCHANGED <<editorVars, pipeVars, keyVars, wrapVars, envVars>>

\* pipeline.invoke: returns the context or re-raises what a node raised.
JobPipeline(j) ==
    /\ batch.pc = "gather"
    /\ jobs[j].pc = "pipeline"
    /\ \/ jobs' = [jobs EXCEPT ![j].pc = "write_outputs"]
       \/ Returns(j, FailureRecord)
    /\ UNCHANGED <<batch, outputs>>
    /\ UNCHANGED <<editorVars, pipeVars, keyVars, wrapVars, envVars>>

\* write_all_outputs followed by the driver's check of the written YAML: the YAML
\* is written first, then the job description and the keywords, then the PDF is
\* compiled when compile_pdf is set.  `stage` is where an exception is raised.
WriteStages == {"yaml", "rest", "compile", "none"}
FilesWritten(stage, compile_pdf) ==
    CASE stage = "yaml" -> {}
      [] stage = "rest" -> {"yaml"}
      [] stage = "compile" -> {"yaml"}
      [] OTHER -> IF compile_pdf THEN {"yaml", "pdf"} ELSE {"yaml"}

write_all_outputs(j, stage) ==
    /\ stage = "compile" => batch.compile_pdf
    /\ outputs' = [outputs EXCEPT ![j] = @ \cup FilesWritten(stage, batch.compile_pdf)]
    /\ IF stage = "none"
       THEN Returns(j, SuccessRecord("pdf" \in outputs'[j]))
       ELSE Returns(j, FailureRecord)

JobWriteOutputs(j) ==
    /\ batch.pc = "gather"
    /\ jobs[j].pc = "write_outputs"
    /\ \E stage \in WriteStages : write_all_outputs(j, stage)
    /\ UNCHANGED batch
    /\ UNCHANGED <<editorVars, pipeVars, keyVars, wrapVars, envVars>>

\* The run is cancelled while the tasks are awaited: CancelledError is not an
\* Exception, so no task still running returns a record.  A task interrupted
\* inside write_all_outputs may already have written its YAML.
Running(job) == job.pc \in {"setup", "pipeline", "write_outputs"}
BatchCancelled ==
    /\ batch.pc = "gather"
    /\ \E j \in JobIds : Running(jobs[j])
    /\ batch' = [batch EXCEPT !.pc = "cancelled"]
    /\ jobs' = [j \in JobIds |-> IF Running(jobs[j])
                                 THEN [jobs[j] EXCEPT !.pc = "cancelled"] ELSE jobs[j]]
    /\ \E written \in SUBSET {j \in JobIds : jobs[j].pc = "write_outputs"} :
          outputs' = [j \in JobIds |-> IF j \in written THEN outputs[j] \cup {"yaml"}
                                       ELSE outputs[j]]
    /\ UNCHANGED <<editorVars, pipeVars, keyVars, wrapVars, envVars>>

\* asyncio.gather returns the records of all tasks; Step 3 follows when
\* compile_pdf is set and some record is a success with a yaml_path.
Dispatched == {j \in JobIds : jobs[j].pc \in {"setup", "pipeline", "write_outputs",
                                                "returned", "cancelled"}}
Successful == {j \in Dispatched : /\ jobs[j].result.success
                                  /\ ~jobs[j].result.skipped
                                  /\ jobs[j].result.yaml_path}
GatherResults ==
    /\ batch.pc = "gather"
    /\ \A j \in Dispatched : jobs[j].pc = "returned"
    /\ batch' = [batch EXCEPT !.pc = IF batch.compile_pdf /\ Successful # {}
                                      THEN "compile_pdfs" ELSE "returned",
                              !.returned = IF batch.compile_pdf /\ Successful # {}
                                           THEN {} ELSE Dispatched]
    /\ UNCHANGED <<jobs, outputs>>
    /\ UNCHANGED <<editorVars, pipeVars, keyVars, wrapVars, envVars>>

\* Step 3: Path(r['pdf_path']) for every successful record, then compile_pdfs,
\* which gathers one compile per job whose YAML exists; compile raises
\* RuntimeError on any failure and nothing here catches it.
compile_pdfs(failing) ==
    IF failing = {}
    THEN /\ batch' = [batch EXCEPT !.pc = "returned", !.returned = Dispatched]
         /\ outputs' = [j \in JobIds |-> IF j \in Successful /\ "yaml" \in outputs[j]
                                         THEN outputs[j] \cup {"pdf"} ELSE outputs[j]]
    ELSE /\ batch' = [batch EXCEPT !.pc = "raised"]
         /\ UNCHANGED outputs

BatchCompilePdfs ==
    /\ batch.pc = "compile_pdfs"
    /\ IF \E j \in Successful : ~jobs[j].result.pdf_path
       THEN /\ batch' = [batch EXCEPT !.pc = "raised"]
            /\ UNCHANGED outputs
       ELSE \E failing \in SUBSET {j \in Successful : "yaml" \in outputs[j]} :
               compile_pdfs(failing)
    /\ UNCHANGED jobs
    /\ UNCHANGED <<editorVars, pipeVars, keyVars, wrapVars, envVars>>

NextBatch ==
    \/ StartBatch
    \/ DispatchLoop
    \/ \E j \in JobIds : JobSetup(j)
    \/ \E j \in JobIds : JobPipeline(j)
    \/ \E j \in JobIds : JobWriteOutputs(j)
    \/ BatchCancelled
    \/ GatherResults
    \/ BatchCompilePdfs

(***************************************************************************)
(* LLMInterface._get_llm in the worker threads of a batch: each job's      *)
(* pipeline runs in its own thread (batch_optimizer.py 113-119) with its   *)
(* own LLMInterface, and _get_llm passes the slot's credential to          *)
(* init_chat_model through the process-wide environment variable of the    *)
(* provider.  The statements of one call are separate steps; no lock is    *)
(* held between them.                                                      *)
(***************************************************************************)
Workers == {"w1", "w2"}
Unset == <<>>
OriginalKey == <<"original">>
\* self.config.get(api_key_env): the credential of the slot
CustomKey(slot) == <<"key", slot>>

NoCall == [pc |-> "idle", api_key_env |-> primary_key_env, original_api_key |-> Unset,
           before |-> Unset, built_with |-> Unset]

EnvIdle ==
    /\ os_environ = Unset
    /\ get_llm = [w \in Workers |-> NoCall]

\* Each worker is about to call _get_llm for the slot its manager handed out.
InitEnv ==
    /\ os_environ \in {Unset, OriginalKey}
    /\ get_llm \in [Workers -> {[NoCall EXCEPT !.pc = "save", !.api_key_env = k] :
                                   k \in {primary_key_env, backup_key_envs[1]}}]

\* Lines 138-139: if env_key in os.environ: original_api_key = os.environ[env_key]
SaveOriginalKey(w) ==
    /\ get_llm[w].pc = "save"
    /\ get_llm' = [get_llm EXCEPT ![w].pc = "set", ![w].original_api_key = os_environ,
                                  ![w].before = os_environ]
    /\ UNCHANGED os_environ
    /\ UNCHANGED <<editorVars, pipeVars, keyVars, wrapVars, batchVars>>

\* Lines 141-143: os.environ[env_key] = custom_key
SetCustomKey(w) ==
    /\ get_llm[w].pc = "set"
    /\ os_environ' = CustomKey(get_llm[w].api_key_env)
    /\ get_llm' = [get_llm EXCEPT ![w].pc = "init"]
    /\ UNCHANGED <<editorVars, pipeVars, keyVars, wrapVars, batchVars>>

\* Line 163: init_chat_model reads the credential from the environment.
KeyInEnvironment(w, env) == env
InitChatModel(w) ==
    /\ get_llm[w].pc = "init"
    /\ get_llm' = [get_llm EXCEPT ![w].pc = "restore",
                                  ![w].built_with = KeyInEnvironment(w, os_environ)]
    /\ UNCHANGED os_environ
    /\ UNCHANGED <<editorVars, pipeVars, keyVars, wrapVars, batchVars>>

\* Lines 166-169 (finally): the saved key is put back when there was one.
RestoreKey(w) ==
    /\ get_llm[w].pc = "restore"
    /\ os_environ' = IF get_llm[w].original_api_key # Unset
                     THEN get_llm[w].original_api_key ELSE os_environ
    /\ get_llm' = [get_llm EXCEPT ![w].pc = "returned"]
    /\ UNCHANGED <<editorVars, pipeVars, keyVars, wrapVars, batchVars>>

NextEnv ==
    \/ \E w \in Workers : SaveOriginalKey(w)
    \/ \E w \in Workers : SetCustomKey(w)
    \/ \E w \in Workers : InitChatModel(w)
    \/ \E w \in Workers : RestoreKey(w)

(***************************************************************************)
(* Specifications.                                                         *)
(***************************************************************************)
InitEditorSpec == InitEditor /\ PipelineIdle /\ KeysIdle /\ WrapperIdle /\ BatchIdle /\ EnvIdle
SpecEditor == InitEditorSpec /\ [][NextEditor]_vars

InitApplySpec == InitApply /\ PipelineIdle /\ KeysIdle /\ WrapperIdle /\ BatchIdle /\ EnvIdle
SpecApply == InitApplySpec /\ [][NextApply]_vars

InitPipelineSpec == InitPipeline /\ EditorIdle /\ KeysIdle /\ WrapperIdle /\ BatchIdle /\ EnvIdle
SpecPipeline == InitPipelineSpec /\ [][NextPipeline]_vars

InitKeysSpec == InitKeys /\ EditorIdle /\ PipelineIdle /\ WrapperIdle /\ BatchIdle /\ EnvIdle
SpecKeys == InitKeysSpec /\ [][NextKeys]_vars

InitProcessSpec == InitProcess /\ EditorIdle /\ PipelineIdle /\ WrapperIdle /\ BatchIdle /\ EnvIdle
SpecProcess == InitProcessSpec /\ [][NextProcess]_vars

InitRestartsSpec == InitKeys /\ EditorIdle /\ PipelineIdle /\ WrapperIdle /\ BatchIdle /\ EnvIdle
SpecRestarts == InitRestartsSpec /\ [][NextRestarts]_vars

InitSharedSpec == InitProcess /\ EditorIdle /\ PipelineIdle /\ WrapperIdle /\ BatchIdle /\ EnvIdle
SpecShared == InitSharedSpec /\ [][NextShared]_vars

InitWrapperSpec == InitWrapper /\ EditorIdle /\ PipelineIdle /\ BatchIdle /\ EnvIdle
SpecWrapper == InitWrapperSpec /\ [][NextWrapper]_vars

InitEnvSpec == InitEnv /\ EditorIdle /\ PipelineIdle /\ KeysIdle /\ WrapperIdle /\ BatchIdle
SpecEnv == InitEnvSpec /\ [][NextEnv]_vars

InitBatchSpec == InitBatch /\ EditorIdle /\ PipelineIdle /\ KeysIdle /\ WrapperIdle /\ EnvIdle
SpecBatch == InitBatchSpec /\ [][NextBatch]_vars

(***************************************************************************)
(* Properties of the pipeline run (checked under SpecPipeline).            *)
(***************************************************************************)
Finished == pc = "done"

\* C1: with ceiling N and a validator that reports an invalid score on every pass,
\* the run never makes more than N Validation passes, and when it has passed
\* Validation for the last time (Formatting, OutputCompile, done) it has made
\* exactly N, is_valid is (forced) true and dishonesty_score is the score of the
\* last evaluation.
C1_CeilingTerminates ==
    hist.all_invalid =>
        /\ hist.validations <= max_retries
        /\ pc \in {"formatting", "output_compile", "done"} =>
              /\ hist.validations = max_retries
              /\ validation_attempts = max_retries
              /\ is_valid = TRUE
              /\ dishonesty_score = hist.last_score
              /\ ~ScoreValid(dishonesty_score)

C1_Witness ==
    /\ Finished
    /\ hist.all_invalid
    /\ max_retries = MaxCeiling
    /\ hist.validations = MaxCeiling

\* C2: in every state after LoadInputs, edited_resume differs from input_resume
\* only at locations covered by section_paths.
C2_OnlyAllowedPathsWritten ==
    pc \notin {"idle", "load_inputs"} =>
        OnlyAllowedChanged(input_resume, edited_resume, section_paths)

\* C3: input_resume is never mutated after LoadInputs: in every state it equals
\* the value that was loaded.
C3_InputNeverMutated == input_resume = loaded

C3_Witness ==
    /\ Finished
    /\ edited_resume # input_resume
    /\ formatted_resume # NoneVal
    /\ hist.refinements > 0

\* C5 as stated: a finished run that took the refine loop k times holds 2 + k
\* versions.
C5_HistoryTwoPlusK == Finished => Len(versions) = 2 + hist.refinements

\* C5 amended: a finished run that took the refine loop k times holds 2 + 2k
\* versions: one of LoadInputs, one per Optimization (k + 1 of them) and one per
\* Refinement (k).
C5_HistoryTwoPlusTwoK ==
    Finished =>
        /\ hist.optimizations = hist.refinements + 1
        /\ Len(versions) = 2 + 2 * hist.refinements

C5_Witness == Finished /\ hist.refinements >= 1

\* C6: at the end of every phase that ended normally the last entry of
\* edited_resume_versions equals edited_resume.
C6_LastVersionIsCurrent ==
    pc \notin {"idle", "load_inputs", "error"} =>
        /\ versions # <<>>
        /\ versions[Len(versions)] = edited_resume

(***************************************************************************)
(* Properties of the editor functions (checked under SpecEditor).          *)
(***************************************************************************)
\* C4: apply_selective_resume_updates(D, extract_allowed_updates_only(U, P), P)
\* changes only what P covers; every other key of D, also one that did not exist
\* before, is as it was.
C4_FilteredApplyFrame ==
    editor_op = "filtered_apply" =>
        OnlyAllowedChanged(doc_before, resume_dict, allowed_paths)

(***************************************************************************)
(* Key rotation.                                                           *)
(***************************************************************************)
\* A step in which manager m ran get_next_key_env / handle_api_error.
GetNextStep(m) == last'.op = "get_next_key_env" /\ last'.m = m
HandleStep(m) == last'.op = "handle_api_error" /\ last'.m = m

\* The slot is exhausted with a date before today and the call will run the
\* lazy reset, so that the call clears it.
ExpiresNow(m, key) ==
    /\ key \in DOMAIN quota_exhausted_keys[m]
    /\ quota_exhausted_keys[m][key] < today
    /\ session_reset_checked # {today}

\* The slot is exhausted and this call does not clear it.
StaysExhausted(m, key) ==
    /\ key \in DOMAIN quota_exhausted_keys[m]
    /\ key \in DOMAIN quota_exhausted_keys'[m]

UsableAfter(m, key) ==
    key \notin failed_keys'[m] /\ key \notin DOMAIN quota_exhausted_keys'[m]

\* Slot a is marked exhausted only, slot b is marked failed.
ExhaustedAndFailed(m, a, b) ==
    /\ a \in DOMAIN quota_exhausted_keys[m]
    /\ a \notin failed_keys[m]
    /\ b \in failed_keys[m]

\* C7 as stated: with slots [A, B, C], A exhausted and B failed,
\* get_next_key_env returns C; once the date has passed A's exhaustion date it
\* returns A again; it never returns B.
C7_ExpiredPrimaryReturned ==
    [][\A m \in Managers :
         (GetNextStep(m) /\ ExhaustedAndFailed(m, "A", "B")) =>
            /\ (StaysExhausted(m, "A") /\ UsableAfter(m, "C")) => last'.ret = "C"
            /\ ExpiresNow(m, "A") => last'.ret = "A"
            /\ last'.ret # "B"]_vars

\* C7 amended: with A exhausted and B failed, get_next_key_env returns C; once
\* the date has passed A's exhaustion date the call clears A, yet it keeps
\* returning the current slot C for as long as C is usable, and returns A only
\* when C is not usable; it never returns B.
C7_ExpiredPrimaryBehindCurrent ==
    [][\A m \in Managers :
         (GetNextStep(m) /\ ExhaustedAndFailed(m, "A", "B")) =>
            /\ (StaysExhausted(m, "A") /\ UsableAfter(m, "C")) => last'.ret = "C"
            /\ ExpiresNow(m, "A") =>
                 /\ "A" \notin DOMAIN quota_exhausted_keys'[m]
                 /\ (current_key_env[m] = "C" /\ UsableAfter(m, "C")) => last'.ret = "C"
                 /\ ~UsableAfter(m, "C") => last'.ret = "A"
            /\ last'.ret # "B"]_vars

\* The call that cleared the expired slot A, with B failed, returned C.
C7_Witness ==
    /\ last.op = "get_next_key_env"
    /\ last.cleared = {"A"}
    /\ "B" \in failed_keys[last.m]
    /\ last.ret = "C"
    /\ today >= 1

\* C8: get_next_key_env never returns a slot that is in failed_keys or in
\* quota_exhausted_keys, and a failed slot stays failed (hence is never
\* returned) until reset().
C8_NeverReturnsUnusable ==
    [][\A m \in Managers :
         /\ (GetNextStep(m) /\ last'.ret # NoKey) =>
               /\ last'.ret \in Slots
               /\ last'.ret \notin failed_keys[m]
               /\ UsableAfter(m, last'.ret)
         /\ (last'.op = "reset" /\ last'.m = m) \/ failed_keys[m] \subseteq failed_keys'[m]]_vars

\* A slot was returned while another one is failed and a third one exhausted.
C8_Witness ==
    /\ last.op = "get_next_key_env"
    /\ last.ret \in Slots
    /\ failed_keys[last.m] # {}
    /\ DOMAIN quota_exhausted_keys[last.m] # {}

FirstUsableAfter(m) ==
    LET avail == {i \in 1..Len(all_keys) : UsableAfter(m, all_keys[i])}
    IN all_keys[CHOOSE i \in avail : \A j \in avail : i <= j]

\* C9: get_next_key_env returns the current slot when it is usable; otherwise
\* the first usable slot in the order [primary, backups...], which becomes the
\* current slot; it returns None exactly when no slot is usable.
C9_RotationOrder ==
    [][\A m \in Managers :
         GetNextStep(m) =>
            /\ UsableAfter(m, current_key_env[m]) =>
                 last'.ret = current_key_env[m] /\ current_key_env'[m] = current_key_env[m]
            /\ (~UsableAfter(m, current_key_env[m]) /\ \E k \in Slots : UsableAfter(m, k)) =>
                 last'.ret = FirstUsableAfter(m) /\ current_key_env'[m] = last'.ret
            /\ last'.ret = NoKey <=> \A k \in Slots : ~UsableAfter(m, k)]_vars

\* The call rotated away from an unusable current slot to the last slot, the
\* ones before it being unusable.
C9_Witness ==
    /\ last.op = "get_next_key_env"
    /\ last.ret = "C"
    /\ current_key_env[last.m] = "C"
    /\ "A" \in DOMAIN quota_exhausted_keys[last.m]
    /\ "B" \in failed_keys[last.m]

\* C10: handle_api_error returns exactly one of 'quota_exhausted',
\* 'rate_limited', 'failed'; an error whose text carries both a quota and a
\* rate-limit signature is classified 'quota_exhausted': the slot is recorded
\* exhausted, it is not added to failed_keys.
C10_QuotaWinsOverRateLimit ==
    [][\A m \in Managers :
         HandleStep(m) =>
            /\ last'.ret \in {"quota_exhausted", "rate_limited", "failed"}
            /\ (last'.quota_sig /\ last'.rpm_sig) =>
                 /\ last'.ret = "quota_exhausted"
                 /\ last'.key \in DOMAIN quota_exhausted_keys'[m]
                 /\ failed_keys'[m] = failed_keys[m]]_vars

\* An error with both signatures was handled for a slot that was not failed.
C10_Witness ==
    /\ last.op = "handle_api_error"
    /\ last.quota_sig /\ last.rpm_sig
    /\ last.key \in DOMAIN quota_exhausted_keys[last.m]
    /\ last.key \notin failed_keys[last.m]

(***************************************************************************)
(* Restarts and several managers in one process.                           *)
(***************************************************************************)
\* m0 is the only manager of the running process.
OnlyManager(m0) == constructed[m0] /\ \A x \in Managers : constructed[x] => x = m0

\* C11: a manager constructed in a new process over the state file of the
\* earlier process starts with the slot -> date map the earlier manager last
\* held, with no failed slot and with the primary slot as current.
C11_RestartKeepsQuotaOnly ==
    [][\A m \in Managers :
         (last'.op = "restart" /\ last'.m = m) =>
            /\ failed_keys'[m] = {}
            /\ current_key_env'[m] = primary_key_env
            /\ \A m0 \in Managers :
                 OnlyManager(m0) => quota_exhausted_keys'[m] = quota_exhausted_keys[m0]]_vars

\* A restarted manager holds an exhaustion of the primary slot, which only an
\* earlier manager can have recorded, and no failure.
C11_Witness ==
    /\ last.op = "restart"
    /\ "A" \in DOMAIN quota_exhausted_keys[last.m]
    /\ failed_keys[last.m] = {}
    /\ current_key_env[last.m] = primary_key_env

\* C12: for every manager of the process, a slot whose recorded exhaustion date
\* is earlier than the current date is usable again after that manager's next
\* get_next_key_env call, whatever other managers exist or have checked.
C12_ExpiredUsableForEveryManager ==
    [][\A m \in Managers :
         GetNextStep(m) =>
            \A k \in DOMAIN quota_exhausted_keys[m] :
                quota_exhausted_keys[m][k] < today =>
                    k \notin DOMAIN quota_exhausted_keys'[m]]_vars

\* Manager m0 holds slot k as failed, or as exhausted for today or later.
MarkedBy(m0, k) ==
    \/ k \in failed_keys[m0]
    \/ k \in DOMAIN quota_exhausted_keys[m0] /\ quota_exhausted_keys[m0][k] >= today

\* C20: once one run has marked a slot failed or quota-exhausted, no other run
\* of the process is handed that slot by its get_next_key_env.
C20_MarkedSlotNotHandedOut ==
    [][\A m \in Managers :
         (GetNextStep(m) /\ last'.ret # NoKey) =>
            \A m0 \in Managers \ {m} : constructed[m0] => ~MarkedBy(m0, last'.ret)]_vars

(***************************************************************************)
(* The LLM call wrapper.                                                   *)
(***************************************************************************)
\* The wrapper handles the pending error / makes the next model call.
HandleErrorStep == wrapper.pc = "handle" /\ wrapper' # wrapper
AttemptStep == wrapper.pc = "attempt" /\ wrapper' # wrapper

\* The step leaves the invocation with `raise e`.
InvocationRaises ==
    \/ wrapper'.pc = "done" /\ wrapper'.result # "content"
    \/ wrapper'.is_fallback # wrapper.is_fallback

\* A rate-limited failure is retried on the same slot after a wait of
\* retry_delay * 2^i, i the number of retries already made on the slot, and
\* raised once max_retries retries have been made.
RateLimitRetried ==
    /\ (HandleErrorStep /\ is_rate_limit_error(wrapper.err)) =>
         IF Len(wlog.waits) < wrapper.max_retries
         THEN /\ wlog'.waits = Append(wlog.waits, retry_delay * (2 ^ Len(wlog.waits)))
              /\ wrapper'.pc = "attempt"
              /\ wrapper'.is_fallback = wrapper.is_fallback
              /\ wrapper'.current_key_env = wrapper.current_key_env
         ELSE InvocationRaises /\ wlog'.waits \in {wlog.waits, <<>>}
    /\ (AttemptStep /\ wlog.after = "backoff") =>
         wrapper'.current_key_env = wrapper.current_key_env

\* C13: for any configuration, when a model call fails with an error that
\* classifies as rate-limited, the wrapper waits retry_delay * 2^i before its
\* i-th retry on the slot (i = 0, 1, ...), retries on the same slot, and
\* re-raises once max_retries retries on that slot have been used.
C13_BackoffOnRateLimit == [][RateLimitRetried]_vars

\* The pending error was raised by a call on a slot of the manager and
\* classifies as quota-exhausted or as unclassified (failed).
RotatingFailure ==
    /\ HandleErrorStep
    /\ wrapper.use_manager
    /\ wrapper.current_key_env # NoKey
    /\ Classify(wrapper.err) \in {"quota_exhausted", "failed"}

UsableNow(k) == is_key_available(k, failed_keys'["m1"], quota_exhausted_keys'["m1"])

\* The step retries within the invocation.
RetriesInInvocation ==
    wrapper'.pc = "attempt" /\ wrapper'.is_fallback = wrapper.is_fallback

\* A retry after a rotating failure is on a different slot, the one the manager
\* now holds as current, with the rate-limit counter at zero; without another
\* usable slot the error is raised.
RotatedOrRaised ==
    RotatingFailure =>
        /\ RetriesInInvocation =>
             /\ wrapper'.current_key_env # wrapper.current_key_env
             /\ wrapper'.current_key_env = current_key_env'["m1"]
             /\ UsableNow(wrapper'.current_key_env)
             /\ wrapper'.rpm_retry_count = 0
        /\ (\A k \in Slots \ {wrapper.current_key_env} : ~UsableNow(k)) => InvocationRaises
        /\ RetriesInInvocation \/ InvocationRaises

\* C14 as stated: on a quota-exhausted or unclassified failure the wrapper
\* marks the slot (quota-exhausted resp. failed) and asks the manager for the
\* next slot; a different slot is retried with the counter at zero, without one
\* the error is re-raised; the failing slot is not used again in the invocation.
C14_RotateAndNeverReuse ==
    [][/\ RotatedOrRaised
       /\ RotatingFailure =>
            IF Classify(wrapper.err) = "failed"
            THEN wrapper.current_key_env \in failed_keys'["m1"]
            ELSE wrapper.current_key_env \in DOMAIN quota_exhausted_keys'["m1"]
       /\ (AttemptStep /\ wrapper'.current_key_env # NoKey) =>
            wrapper'.current_key_env \notin wlog.marked]_vars

\* C14 amended: with a key manager, a quota-exhausted or unclassified failure
\* marks the slot, unless the quota date recorded for it is already past; a
\* retry is on a different slot with the counter at zero, and without another
\* usable slot the error is re-raised; a slot is called only while the manager
\* holds no mark for it, so a marked slot comes back only after the daily reset
\* cleared its quota mark.
C14_RotateWhileMarked ==
    [][/\ RotatedOrRaised
       /\ RotatingFailure =>
            IF Classify(wrapper.err) = "failed"
            THEN wrapper.current_key_env \in failed_keys'["m1"]
            ELSE \/ wrapper.current_key_env \in DOMAIN quota_exhausted_keys'["m1"]
                 \/ ExhaustedDate(provider_name, wrapper.err, today) < today
       /\ (AttemptStep /\ wrapper.use_manager /\ wrapper'.current_key_env # NoKey) =>
            UsableNow(wrapper'.current_key_env)]_vars

\* A call rotated away from a marked slot and is about to try another one.
C14_Witness ==
    /\ wrapper.pc = "attempt"
    /\ wlog.after = "rotation"
    /\ wlog.marked # {}
    /\ wrapper.current_key_env \notin wlog.marked
    /\ wrapper.rpm_retry_count = 0

\* send_prompt has returned a string to its caller (lines 292, 299, 304, 306):
\* the model's content or the "[LLM Error: ...]" text.
ReturnsText == wrapper.pc = "done" /\ wrapper.result \in {"content", "llm_error_text"}

\* Both invocations of one send_prompt call ended in a raised error.
BothInvocationsFailed ==
    wrapper.pc = "done" /\ wlog.primary_raised /\ wlog.fallback_raised

\* C15: with fallback enabled, a failed primary invocation is followed by
\* exactly one fallback invocation, and when the fallback fails as well the
\* caller gets an error, not a response text.
C15_OneFallbackThenFatal ==
    /\ (wrapper.fallback /\ wlog.primary_raised) =>
           wlog.invocations = <<"primary", "fallback">>
    /\ BothInvocationsFailed => ~ReturnsText

\* C16: parse_llm_yaml_to_dict returns a mapping (possibly empty) for every
\* response text a phase hands it.
C16_ParseAlwaysMapping ==
    hist.response # "none" => IsDict(hist.parsed)

\* What a phase parsed holds nothing to apply: not a mapping, or the empty
\* mapping (which is also what unparseable text parses to).
NoUsableContent(parsed) == ~IsDict(parsed) \/ parsed = Map(EmptyDoc)

\* The last phase run was a document-producing one and its answer held nothing
\* usable.
DocumentPhaseGotNothing ==
    /\ hist.phase \in {"optimization", "refinement"}
    /\ hist.response # "none"
    /\ NoUsableContent(hist.parsed)

\* C17: a document-producing phase (Optimization, Refinement) whose answer
\* yields no usable structured content ends in an error; it never hands the
\* run to its next phase.
C17_NoContentRaises ==
    DocumentPhaseGotNothing => pc = "error"

\* C18: a run is in one phase at a time, and a step that hands the run from a
\* phase to another follows LoadInputs -> Planning -> Optimization ->
\* Validation, then Formatting iff is_valid is true, else Refinement;
\* Refinement -> Optimization; Formatting -> OutputCompile, after which the
\* run is over.  (A phase that raises ends the run.)
C18_TransitionRelation ==
    [][(pc' # pc /\ pc' # "error") =>
          CASE pc = "load_inputs" -> pc' = "planning"
            [] pc = "planning" -> pc' = "optimization"
            [] pc = "optimization" -> pc' = "validation"
            [] pc = "validation" ->
                 /\ pc' \in {"formatting", "refinement"}
                 /\ pc' = "formatting" <=> is_valid' = TRUE
            [] pc = "refinement" -> pc' = "optimization"
            [] pc = "formatting" -> pc' = "output_compile"
            [] pc = "output_compile" -> pc' = "done"
            [] OTHER -> FALSE]_vars

\* A run that took the back edge through Refinement and later finished through
\* Formatting and OutputCompile.
C18_Witness ==
    /\ pc = "done"
    /\ hist.refinements >= 1
    /\ hist.optimizations >= 2
    /\ is_valid = TRUE

\* The end-to-end scenario: the input document, the allowed paths, the
\* optimizer's answer, a validator scoring 10 on the first pass, and a formatter
\* answering with a mapping.
ScenarioInput ==
    [profile |-> Map([description |-> <<"old">>]), skills |-> List(<<Str(<<"Py">>)>>)]
ScenarioAnswer ==
    Map([profile |-> Map([description |-> <<"new">>]),
         skills |-> List(<<Str(<<"Py">>), Str(<<"SQL">>)>>)])
ScenarioExpected ==
    [profile |-> Map([description |-> <<"new">>]),
     skills |-> List(<<Str(<<"Py">>), Str(<<"SQL">>)>>)]
ScenarioRun ==
    /\ loaded = ScenarioInput
    /\ section_paths = <<DotPath("profile", "description"), TopPath("skills")>>
    /\ hist.optimizations = 1
    /\ hist.optimizer_answer = ScenarioAnswer
    /\ hist.validations = 1
    /\ hist.last_score = IntVal(10)
    /\ hist.phase \in {"formatting", "output_compile"}
    /\ hist.phase = "formatting" => hist.response = "mapping"

\* C19: the end-to-end scenario completes, with the final document holding the
\* new description and skills, validation_attempts = 1 and two versions.
C19_EndToEnd ==
    ScenarioRun =>
        /\ pc \in {"output_compile", "done"}
        /\ edited_resume = ScenarioExpected
        /\ validation_attempts = 1
        /\ Len(versions) = 2

UpdateAt(u, p) ==
    IF ~IsDict(u) \/ p.s \notin DOMAIN u.v THEN NoneVal
    ELSE IF ~IsDot(p) THEN u.v[p.s]
    ELSE IF IsDict(u.v[p.s]) /\ p.f \in DOMAIN u.v[p.s].v THEN Str(u.v[p.s].v[p.f])
    ELSE NoneVal

\* The update item a bracketed path applied to the list the document held, None
\* when the update holds no matching item or the document no matching item.
UpdateItemAt(u, doc, p) ==
    IF /\ IsDict(u) /\ p.s \in DOMAIN u.v
       /\ p.s \in DOMAIN doc /\ IsList(doc[p.s])
       /\ SomeItemMatches(doc[p.s].v, p.x)
    THEN MatchingUpdate(u.v[p.s], p.x)
    ELSE NoneVal

\* The extraction just made found what the apply before it wrote at its path.
ExtractedIsApplied ==
    LET p == extracted'.path
        val == extracted'.val
    IN IF IsBracket(p)
       THEN LET upd == UpdateItemAt(updates, doc_before, p)
            IN upd # NoneVal =>
                 /\ val.t = "map"
                 /\ \A f \in DOMAIN upd.v : f \in DOMAIN val.v /\ val.v[f] = upd.v[f]
       ELSE UpdateAt(updates, p) # NoneVal => val = UpdateAt(updates, p)

ExtractAfterApply ==
    /\ editor_op' = "extract"
    /\ editor_op = "apply"
    /\ ~editor_raised
    /\ \E i \in 1..Len(allowed_paths) : allowed_paths[i] = extracted'.path

SecondApply == editor_op = "apply" /\ editor_op' = "apply_again"

\* C23 as stated: applying the same updates at the same paths a second time
\* leaves the document as the first application left it, and afterwards
\* extract_by_path_advanced returns, for each allowed path present in the
\* updates, the value that was applied there.
C23_ApplyIdempotentExtractAgrees ==
    [][/\ SecondApply => (resume_dict' = resume_dict /\ editor_raised' = editor_raised)
       /\ ExtractAfterApply => ExtractedIsApplied]_vars

\* The one allowed path of a call is the bracketed path p, and both the
\* document's list and the update's list hold an item matching its filter.
SoleBracketCall(p) ==
    /\ allowed_paths = <<p>>
    /\ IsBracket(p) /\ ~IsDot(p)
    /\ UpdateItemAt(updates, doc_before, p) # NoneVal

\* The first item of the list that matches the filter.
FirstMatch(items, x) ==
    CHOOSE i \in 1..Len(items) :
        /\ FilterInJoinedValues(items[i], x)
        /\ \A j \in 1..(i - 1) : ~FilterInJoinedValues(items[j], x)

\* C24: for a bracketed path a[x] the call merges the matching update item into
\* exactly one item of list a, the first that matches x; every other item,
\* matching or not, is as it was.
C24_BracketMergesOneItem ==
    \A p \in ApplyPaths :
        (editor_op = "apply" /\ ~editor_raised /\ SoleBracketCall(p)) =>
            LET before == doc_before[p.s].v
                after == resume_dict[p.s].v
                first == FirstMatch(before, p.x)
                upd == UpdateItemAt(updates, doc_before, p)
            IN /\ Len(after) = Len(before)
               /\ after[first] = Map(DictUpdate(before[first].v, upd.v))
               /\ \A i \in (1..Len(before)) \ {first} : after[i] = before[i]

\* The one allowed path of a call is a dotted or top-level path the update map
\* holds no value for.
SoleAbsentCall(p) ==
    /\ allowed_paths = <<p>>
    /\ ~IsBracket(p)
    /\ IsDict(updates)
    /\ UpdateAt(updates, p) = NoneVal

\* C25: an allowed path whose target is absent from the update map is a no-op:
\* the document is unchanged, no key is created and nothing is raised.
C25_AbsentPathIsNoOp ==
    \A p \in ApplyPaths :
        (editor_op = "apply" /\ SoleAbsentCall(p)) =>
            /\ resume_dict = doc_before
            /\ ~editor_raised

C27_SectionsPreserved ==
    pc \in {"output_compile", "done"} =>
        /\ IsDict(formatted_resume)
        /\ "sections" \in DOMAIN formatted_resume.v
        /\ formatted_resume.v["sections"] = input_resume["sections"]
        /\ input_resume["sections"] = loaded["sections"]

\* Formatting succeeded on an answer that carried a 'sections' field of its own.
C27_Witness ==
    /\ pc = "output_compile"
    /\ hist.phase = "formatting"
    /\ IsDict(hist.parsed)
    /\ "sections" \in DOMAIN hist.parsed.v
    /\ hist.parsed.v["sections"] # input_resume["sections"]
    /\ formatted_resume.v["sections"] = input_resume["sections"]

\* C29: validation_attempts is the number of Validation executions of the run
\* so far: a Validation pass adds exactly one, no other phase changes it, and
\* Refinement is not entered once it has reached the ceiling.
C29_AttemptsCountValidations ==
    [][/\ IF pc = "validation"
          THEN validation_attempts' = validation_attempts + 1
          ELSE validation_attempts' = validation_attempts
       /\ validation_attempts' = hist'.validations
       /\ pc' = "refinement" => validation_attempts' < max_retries]_vars

\* A run that validated up to the ceiling, with a refinement in between, and
\* went on to Formatting.
C29_Witness ==
    /\ pc = "formatting"
    /\ max_retries >= 2
    /\ validation_attempts = max_retries
    /\ hist.validations = validation_attempts
    /\ hist.refinements >= 1

\* The validator's parsed answer holds VALIDATION_RESULTS with an integer
\* DISHONESTY_SCORE of at most 20.
AnswerHoldsLowScore(parsed) ==
    /\ IsDict(parsed)
    /\ "VALIDATION_RESULTS" \in DOMAIN parsed.v
    /\ IsDict(parsed.v["VALIDATION_RESULTS"])
    /\ "DISHONESTY_SCORE" \in DOMAIN parsed.v["VALIDATION_RESULTS"].v
    /\ ScoreValid(parsed.v["VALIDATION_RESULTS"].v["DISHONESTY_SCORE"])

\* C30: below the ceiling a Validation pass leaves is_valid true, and the run
\* on its way to Formatting, only when the validator's answer held a parsed
\* integer dishonesty score of at most 20.
C30_ValidOnlyOnParsedLowScore ==
    (/\ hist.phase = "validation"
     /\ validation_attempts < max_retries
     /\ pc = "formatting"
     /\ is_valid = TRUE) => AnswerHoldsLowScore(hist.parsed)

(***************************************************************************)
(* Properties of the batch driver (checked under SpecBatch).               *)
(***************************************************************************)
AllTasksReturned == Dispatched # {} /\ \A j \in Dispatched : jobs[j].pc = "returned"

\* C21: a failure of one job never aborts the batch: every task that ran to its end
\* has a result record, a batch that returned hands back the records of all its
\* dispatched jobs, and a batch all of whose tasks returned a record never ends
\* with an exception instead of its results.
C21_JobFailureNeverAbortsBatch ==
    /\ \A j \in JobIds : jobs[j].pc = "returned" => jobs[j].result.kind = "record"
    /\ batch.pc = "returned" =>
          /\ batch.returned = Dispatched
          /\ \A j \in Dispatched : jobs[j].result.kind = "record"
    /\ AllTasksReturned => batch.pc # "raised"

\* C28: a job whose run ended without success (a failure record or a cancellation)
\* and that never succeeded has no YAML at the path the dispatch loop checks, and
\* the dispatch loop skips a job only when an earlier run ended with its success
\* record.
C28_UnsuccessfulJobIsRedispatched ==
    \A j \in JobIds :
        /\ (RanUnsuccessfully(jobs[j]) /\ ~jobs[j].succeeded_before)
              => "yaml" \notin outputs[j]
        /\ jobs[j].pc = "skipped_existing" => jobs[j].succeeded_before

\* C31: on the back-edge the optimizer is given the refined working document: in
\* every Optimization that follows a Refinement, the resume put into the optimizer
\* prompt is the working document as that Refinement left it.
C31_OptimizerConsumesRefinement ==
    (hist.phase = "optimization" /\ hist.refinements >= 1) =>
        hist.optimizer_input = hist.working_document

\* The slots one invocation can draw on: the manager's, or the primary alone.
SlotCount == IF wrapper.use_manager THEN Cardinality(Slots) ELSE 1

\* C32 as stated: one invocation of _handle_llm_call_with_key_management makes at
\* most (number of slots) * (max_retries + 1) model calls before it returns or
\* re-raises.
C32_CallsBoundedBySlots ==
    wlog.calls <= SlotCount * (wrapper.max_retries + 1)

\* C32 amended: the calls of one invocation are bounded by
\* (number of slots) * (max_retries + 1) for each provider-local date the
\* invocation runs on: while the date stands a marked slot is not handed out
\* again, and the daily reset can return the quota-exhausted slots once per date.
C32_CallsBoundedPerDate ==
    wlog.calls <= SlotCount * (wrapper.max_retries + 1) * (today - wlog.began + 1)

\* An invocation that stayed within one date and used up the whole bound: every
\* slot was retried to the ceiling and then marked, and the error was raised.
C32_Witness ==
    /\ wrapper.use_manager
    /\ wrapper.max_retries >= 1
    /\ today = wlog.began
    /\ wlog.calls = SlotCount * (wrapper.max_retries + 1)
    /\ wlog.primary_raised

\* C33: a slot marked quota-exhausted while the provider-local date is D is not
\* returned by get_next_key_env for as long as the date is D, whatever the
\* provider and the error text, and also not by the manager of a new process
\* that loaded the persisted state on day D.
C33_MarkedSlotUnavailableAllDay ==
    last.op = "get_next_key_env" => last.ret \notin last.marked_today

\* C34: with one manager whose writes succeed, the quota map the state file
\* holds (as _load_quota_state reads it) equals the manager's in-memory
\* quota_exhausted_keys after construction and after every operation.
C34_DiskEqualsMemory ==
    \A m \in Managers :
        OnlyManager(m) => LoadQuotaState(state_file) = quota_exhausted_keys[m]

\* The manager has just marked a second slot and the file holds both marks.
C34_Witness ==
    /\ OnlyManager("m1")
    /\ last.op = "handle_api_error"
    /\ last.ret = "quota_exhausted"
    /\ state_file.kind = "ok"
    /\ Cardinality(DOMAIN state_file.keys) >= 2

\* The wrapper hands an error to handle_api_error and gets 'rate_limited' back.
RateLimitedHandled ==
    /\ HandleErrorStep
    /\ wrapper.use_manager
    /\ wrapper.current_key_env # NoKey
    /\ Classify(wrapper.err) = "rate_limited"

\* What get_next_key_env would return in the state the step leads to.
NextKeyAfterStep ==
    ManagerGetNext([q |-> quota_exhausted_keys'["m1"], file |-> state_file',
                    checked |-> session_reset_checked',
                    cur |-> current_key_env'["m1"], failed |-> failed_keys'["m1"]],
                   today').ret

\* C35: classifying an error as rate-limited changes no manager state:
\* failed_keys, quota_exhausted_keys, current_key_env and the state file are as
\* before, and the next get_next_key_env returns the same slot again.
C35_RateLimitedChangesNothing ==
    [][/\ RateLimitedHandled =>
            /\ UNCHANGED <<failed_keys, quota_exhausted_keys, current_key_env, state_file>>
            /\ NextKeyAfterStep = wrapper.current_key_env
       /\ (AttemptStep /\ wrapper.use_manager /\ wlog.after = "backoff") =>
            wrapper'.current_key_env = wrapper.current_key_env]_vars

\* A call was retried after a rate-limited error and the retry has been made.
C35_Witness ==
    /\ wrapper.use_manager
    /\ wlog.after = "backoff"
    /\ wlog.calls >= 2
    /\ wrapper.pc \in {"handle", "done"}
    /\ wrapper.current_key_env \in Slots

\* C36: the persisted quota record is safe under concurrent managers: every slot
\* a manager of the process has recorded as quota-exhausted today is in the
\* on-disk record, whichever manager wrote the file last.
C36_NoMarkLostOnDisk ==
    last.marked_today \subseteq DOMAIN LoadQuotaState(state_file)

\* apply_selective_resume_updates(D, extract_allowed_updates_only(U, P), P) on the
\* document as it was before the direct call: [doc, err].
FilteredApplication ==
    LET allowed == extract_allowed_updates_only(updates, allowed_paths)
    IN IF allowed.err THEN [doc |-> doc_before, err |-> TRUE]
       ELSE apply_selective_resume_updates(doc_before, Map(allowed.doc), allowed_paths)

\* C37: for every document D, update mapping U and path list P, the direct call
\* apply_selective_resume_updates(D, U, P) leaves the same document as applying
\* extract_allowed_updates_only(U, P), and raises exactly when that does.
C37_DirectEqualsFiltered ==
    (editor_op = "apply" /\ IsDict(updates)) =>
        /\ resume_dict = FilteredApplication.doc
        /\ editor_raised = FilteredApplication.err

\* A direct application through two paths that changed the document, one of
\* them a bracketed path that merged a list item.
C37_Witness ==
    /\ editor_op = "apply"
    /\ IsDict(updates)
    /\ Len(allowed_paths) = 2
    /\ \E i \in 1..2 : IsBracket(allowed_paths[i])
    /\ "experience" \in DOMAIN doc_before
    /\ resume_dict["experience"] # doc_before["experience"]
    /\ \E k \in DOMAIN resume_dict \ {"experience"} :
          k \notin DOMAIN doc_before \/ resume_dict[k] # doc_before[k]

\* C38: for a bracketed path a[x], extraction and update agree on the target:
\* every item of list a that apply_selective_resume_updates modifies for the
\* allowed path a[x] is the item extract_by_path_advanced(D, a[x]) returns for
\* the document D the update was applied to.
C38_ExtractAndUpdateAgree ==
    \A p \in ApplyPaths :
        (editor_op = "apply" /\ ~editor_raised /\ SoleBracketCall(p)) =>
            LET before == doc_before[p.s].v
                after == resume_dict[p.s].v
                modified == {i \in 1..Len(before) : after[i] # before[i]}
            IN \A i \in modified : extract_by_path_advanced(doc_before, p) = before[i]

\* C39: with pipeline runs in concurrent worker threads, the model _get_llm
\* builds for slot S is built with S's credential, and when _get_llm returns the
\* environment variable holds the value it had before the call.
C39_ModelBuiltWithOwnKey ==
    [][\A w \in Workers :
          /\ (get_llm[w].pc = "init" /\ get_llm'[w].pc = "restore") =>
                get_llm'[w].built_with = CustomKey(get_llm[w].api_key_env)
          /\ (get_llm[w].pc = "restore" /\ get_llm'[w].pc = "returned") =>
                os_environ' = get_llm[w].before]_vars
====
